---- MODULE Spec2Model ----
(***************************************************************************)
(* Canvas editor (Themonk20/canvas): the undo/redo history engine of       *)
(* src/app/page.tsx and the drag / resize / rotate interaction state       *)
(* machine of src/components/Canvas.tsx.                                   *)
(*                                                                         *)
(* One action is one event handler run to completion together with the     *)
(* React render that follows it (state setters are batched per handler).   *)
(* A handler reads the state of the render that created it; where a        *)
(* handler is registered once and kept (the keydown listener), the values  *)
(* it closed over are state of the model (kb).                             *)
(***************************************************************************)
EXTENDS Integers, Sequences, FiniteSets, TLC

\* ------------------------------------------------------------------ bounds
\* Spec: commits made by element creation and by the properties panel
MaxCommits == 2
\* SpecDoc: commits explored
MaxDocCommits == 2
\* commits explored by the history specification (SpecHistory)
MaxHistCommits == 102
\* elements a document may hold in the explored runs
MaxElements == 2
\* Spec: gestures that end with a commit in one explored run
MaxGestures == 1
\* SpecHistory: the canvas is cleared only among the first MaxClearTime commits
MaxClearTime == 1
\* SpecHistory explores the stack at capacity: undo, redo, the keyboard shortcuts
\* and commits over a non-empty future are taken once NavFrom commits were made
NavFrom == 99
\* SpecHistory: a commit is made over at most MaxBranchDepth undone entries
MaxBranchDepth == 2

\* commits of a round trip (N commits, N undos) whose start states are remembered
MaxRoundTrip == 3

\* pointer events of one press that the observation trail remembers
MaxTrail == 3

\* rotation gestures of a run of SpecRotate
MaxTurns == 2
MaxEditCommits == 3
MaxGroupCommits == 4
MaxDen == 1000

\* --------------------------------------------------------- program constants
MAX_HISTORY_SIZE == 100
\* Math.max(20, ...) of the resize branch
MinResizeSize == 20
\* selectElement('') : the id a click on empty canvas passes
EmptyId == 0
\* "no value" of a string field: undefined / null
None == "none"
\* null where an element id is expected
Null == -1
\* degrees of a full turn, newRotation % 360
FullTurn == 360

VARIABLES
    elements,            \* page.tsx  elements (the live Element Store)
    selectedElementIds,  \* page.tsx  selectedElementIds
    settings,            \* page.tsx  meshColor, backgroundColor, canvasRatio, showGrid, backgroundImage
    history,             \* page.tsx  history : [past, present, future]
    now,                 \* Date.now(), a logical clock that ticks at every reading by saveToHistory
    kb,                  \* what the registered keydown listener closed over
    activeTool,          \* page.tsx  activeTool
    isDragging, dragStart, dragElementId, potentialDragElement,
    isResizing, resizeHandle, resizeStart,
    isRotating, rotateStart,
    scale,               \* Canvas.tsx scale (zoom)
    pressTarget,         \* the element the pressed primary button went down on: the target of the click
    timers,              \* window.textInputTimeout / window.layerRenameTimeout: the pending debounce timers
    isPreviewMode,       \* page.tsx  isPreviewMode
    touchStart,          \* Canvas.tsx touchStart: the finger distance of the pinch in progress, or null
    lastOp,              \* observation: the handler that ran last
    run,                 \* observation: the current run commit^c undo^u commit^c2
    preUndo,             \* observation: the state just before the last undo
    trail                \* observation: the pointer events since the machine was last left Idle by a pointer-up

gestureVars == <<isDragging, dragStart, dragElementId, potentialDragElement,
                 isResizing, resizeHandle, resizeStart, isRotating, rotateStart>>
canvasVars == <<gestureVars, scale, pressTarget>>
pageVars == <<elements, selectedElementIds, settings, history, now, kb, activeTool>>
obsVars == <<lastOp, run, preUndo, trail>>
modeVars == <<isPreviewMode, touchStart>>
vars == <<pageVars, canvasVars, timers, modeVars, obsVars>>

\* ------------------------------------------------------------------ helpers
Last(s) == s[Len(s)]
Front(s) == SubSeq(s, 1, Len(s) - 1)
Range(s) == {s[i] : i \in 1..Len(s)}
Max2(a, b) == IF a >= b THEN a ELSE b
Min2(a, b) == IF a <= b THEN a ELSE b
SeqMap(F(_), s) == [i \in 1..Len(s) |-> F(s[i])]
RECURSIVE SeqFilter(_, _)
SeqFilter(T(_), s) ==
    IF s = <<>> THEN <<>>
    ELSE IF T(s[1]) THEN <<s[1]>> \o SeqFilter(T, Tail(s))
    ELSE SeqFilter(T, Tail(s))

\* { ...el, field: v }
Spread(el, field, v) == [f \in DOMAIN el \cup {field} |-> IF f = field THEN v ELSE el[f]]
\* el.field ?? default
OrDefault(el, field, default) == IF field \in DOMAIN el THEN el[field] ELSE default

\* Array.prototype.sort((a, b) => b.zIndex - a.zIndex): stable, highest first
RECURSIVE InsertByZ(_, _)
InsertByZ(e, s) ==
    IF s = <<>> THEN <<e>>
    ELSE IF s[1].zIndex >= e.zIndex THEN <<s[1]>> \o InsertByZ(e, Tail(s))
    ELSE <<e>> \o s
RECURSIVE SortLayers(_)
SortLayers(s) ==
    IF s = <<>> THEN <<>>
    ELSE InsertByZ(Last(s), SortLayers(Front(s)))

\* the initial canvas settings of useState / of the initial history
InitSettings ==
    [meshColor |-> "#e2e8f0", backgroundColor |-> "#ffffff",
     canvasRatio |-> "16:9", showGrid |-> TRUE, backgroundImage |-> None]

\* ------------------------------------------------------------ history engine
\* a push that never drops the oldest entry of past
PushNoEvict(prev, newState) ==
    [past |-> Append(prev.past, prev.present), present |-> newState, future |-> <<>>]
\* a push that keeps the undone entries of future
PushKeepFuture(prev, newState) ==
    LET newPast == Append(prev.past, prev.present) IN
    [past |-> IF Len(newPast) > MAX_HISTORY_SIZE THEN Tail(newPast) ELSE newPast,
     present |-> newState,
     future |-> prev.future]
\* the updater saveToHistory hands to setHistory
PushHistory(prev, newState) ==
    LET newPast == Append(prev.past, prev.present) IN
    [past |-> IF Len(newPast) > MAX_HISTORY_SIZE THEN Tail(newPast) ELSE newPast,
     present |-> newState,
     future |-> <<>>]

\* an optional argument: left out, or passed
Absent == <<>>
Some(v) == <<v>>

\* saveToHistory(operation, newElements?, newCanvasSettings?) called at clock t
\* by a handler that closed over (clElements, clSettings)
saveToHistory(prev, operation, newElements, newCanvasSettings, clElements, clSettings, t) ==
    PushHistory(prev,
        [elements |-> IF newElements = Absent THEN clElements ELSE newElements[1],
         canvasSettings |-> IF newCanvasSettings = Absent THEN clSettings ELSE newCanvasSettings[1],
         timestamp |-> t,
         operation |-> operation])

\* undo() run by a closure that sees the stack h: the stack it installs
UndoStack(h) ==
    [past |-> Front(h.past), present |-> Last(h.past), future |-> <<h.present>> \o h.future]
\* redo() run by a closure that sees the stack h
RedoStack(h) ==
    [past |-> Append(h.past, h.present), present |-> h.future[1], future |-> Tail(h.future)]

\* the layers panel sorts the live array in place at every render of the page;
\* a snapshot that is the live array is sorted with it
RenderSnapshot(s) == [s EXCEPT !.elements = SortLayers(@)]

\* the closure the keydown effect registers after a render in which
\* selectedElementIds changed (deps [selectedElementIds]): undo, redo and
\* deleteSelectedElements of that render, with the values they read
Closure(h, els, sel, cs) ==
    [history |-> h, elements |-> els, selectedElementIds |-> sel, settings |-> cs]

\* ------------------------------------------------------------ observations
LastN(s, n) == IF Len(s) <= n THEN s ELSE SubSeq(s, Len(s) - n + 1, Len(s))

\* no interaction session: Idle of the interaction state machine
Idle ==
    /\ ~isDragging /\ ~isResizing /\ ~isRotating
    /\ potentialDragElement = Null

Live == [elements |-> elements, settings |-> settings]
NoRun == [phase |-> "none", c |-> 0, u |-> 0, c2 |-> 0, starts |-> <<>>, prev |-> "other"]
NoPreUndo == [valid |-> FALSE]

\* the run of history operations after a step of the given kind that made k commits;
\* c, u, c2 count the run commit^c undo^u commit^c2 that starts at a fresh history;
\* starts holds the live state before each commit of the current commit run that
\* the Undo button has not undone yet
NextRun(op, kind, k) ==
    LET counted ==
            IF kind = "commit" /\ Idle THEN
                IF run.phase = "commits" THEN [run EXCEPT !.c = @ + k]
                ELSE IF run.phase = "undos" THEN [run EXCEPT !.phase = "commits2", !.c2 = k]
                ELSE IF run.phase = "none" /\ history.past = <<>> /\ history.future = <<>>
                        /\ history.present.operation = "initial"
                     THEN [run EXCEPT !.phase = "commits", !.c = k, !.u = 0, !.c2 = 0]
                ELSE [run EXCEPT !.phase = "none", !.c = 0, !.u = 0, !.c2 = 0]
            ELSE IF kind = "undo" /\ Idle /\ run.phase \in {"commits", "undos"}
                 THEN [run EXCEPT !.phase = "undos", !.u = Min2(@ + 1, run.c + 1)]
            ELSE [run EXCEPT !.phase = "none", !.c = 0, !.u = 0, !.c2 = 0]
        stack ==
            IF kind = "commit" /\ Idle /\ k = 1 THEN
                LastN((IF run.prev = "commit" THEN run.starts ELSE <<>>) \o <<Live>>, MaxRoundTrip)
            ELSE IF op = "undo" /\ Idle /\ run.starts # <<>> THEN Front(run.starts)
            ELSE <<>>
    IN [counted EXCEPT !.starts = stack, !.prev = kind]

\* the trail after one more event, at most MaxTrail events are remembered
Extend(ev) == IF Len(trail) >= MaxTrail THEN trail ELSE Append(trail, ev)
OtherEvent == [k |-> "other", id |-> Null, p |-> <<0, 0>>, g |-> <<0, 0>>, shift |-> FALSE]

ObsHist(op, kind, k) ==
    /\ lastOp' = op
    /\ run' = NextRun(op, kind, k)
    /\ preUndo' = IF kind = "undo" /\ history.future = <<>> /\ history.past # <<>>
                  THEN [valid |-> TRUE, op |-> op, elements |-> elements, settings |-> settings,
                        history |-> history]
                  ELSE NoPreUndo

\* a handler that is no pointer event
Obs(op, kind, k) ==
    /\ ObsHist(op, kind, k)
    /\ trail' = IF trail = <<>> THEN trail ELSE Extend(OtherEvent)

\* a pointer event on the canvas
ObsPointer(op, kind, k, newTrail) ==
    /\ ObsHist(op, kind, k)
    /\ trail' = newTrail

\* no debounce timer is pending
NoTimers == [textInputTimeout |-> Absent, layerRenameTimeout |-> Absent]

\* ------------------------------------------------------------------- Init
InitHistory ==
    [past |-> <<>>,
     present |-> [elements |-> <<>>, canvasSettings |-> InitSettings,
                  timestamp |-> 0, operation |-> "initial"],
     future |-> <<>>]

Init ==
    /\ elements = <<>>
    /\ selectedElementIds = <<>>
    /\ settings = InitSettings
    /\ history = InitHistory
    /\ now = 1
    /\ kb = Closure(InitHistory, <<>>, <<>>, InitSettings)
    /\ activeTool = "cursor"
    /\ isDragging = FALSE
    /\ dragStart = [x |-> 0, y |-> 0]
    /\ dragElementId = Null
    /\ potentialDragElement = Null
    /\ isResizing = FALSE
    /\ resizeHandle = None
    /\ resizeStart = [x |-> 0, y |-> 0, width |-> 0, height |-> 0]
    /\ isRotating = FALSE
    /\ rotateStart = [x |-> 0, y |-> 0, rotation |-> 0]
    /\ scale = 1
    /\ pressTarget = Null
    /\ timers = NoTimers
    /\ isPreviewMode = FALSE
    /\ touchStart = Null
    /\ lastOp = "init"
    /\ run = NoRun
    /\ preUndo = NoPreUndo
    /\ trail = <<>>

\* ------------------------------------------------- page.tsx: history actions
\* clearCanvas, the confirm() dialog answered with OK
clearCanvas ==
    /\ elements' = <<>>
    /\ selectedElementIds' = <<>>
    /\ history' = saveToHistory(history, "clear_canvas", Some(<<>>), Absent, elements, settings, now)
    /\ now' = now + 1
    /\ kb' = Closure(history', <<>>, <<>>, settings)
    /\ UNCHANGED <<settings, activeTool, canvasVars, timers, modeVars>>
    /\ Obs("clearCanvas", "commit", 1)

\* updateShowGrid(newShowGrid), the grid checkbox
updateShowGrid ==
    LET newShowGrid == ~settings.showGrid
        newCanvasSettings == [settings EXCEPT !.showGrid = newShowGrid] IN
    /\ settings' = newCanvasSettings
    /\ elements' = SortLayers(elements)
    /\ history' = saveToHistory(history, "change_grid_visibility", Some(elements'), Some(newCanvasSettings),
                                elements, settings, now)
    /\ now' = now + 1
    /\ UNCHANGED <<selectedElementIds, kb, activeTool, canvasVars, timers, modeVars>>
    /\ Obs("updateShowGrid", "commit", 1)

\* an undo that restores the elements and leaves the live canvas settings as they are
UndoKeepsSettings(h, op) ==
    IF h.past = <<>> THEN
        /\ UNCHANGED <<pageVars, canvasVars, timers, modeVars>>
        /\ Obs(op, "undo", 0)
    ELSE
        LET previous == RenderSnapshot(Last(h.past)) IN
        /\ elements' = previous.elements
        /\ history' = [UndoStack(h) EXCEPT !.present = previous]
        /\ UNCHANGED <<settings, selectedElementIds, now, kb, activeTool, canvasVars, timers, modeVars>>
        /\ Obs(op, "undo", 0)
\* an undo that also clears the selection
UndoClearsSelection(h, op) ==
    IF h.past = <<>> THEN
        /\ UNCHANGED <<pageVars, canvasVars, timers, modeVars>>
        /\ Obs(op, "undo", 0)
    ELSE
        LET previous == RenderSnapshot(Last(h.past)) IN
        /\ elements' = previous.elements
        /\ settings' = previous.canvasSettings
        /\ history' = [UndoStack(h) EXCEPT !.present = previous]
        /\ selectedElementIds' = <<>>
        /\ kb' = Closure(history', previous.elements, <<>>, previous.canvasSettings)
        /\ UNCHANGED <<now, activeTool, canvasVars, timers, modeVars>>
        /\ Obs(op, "undo", 0)

\* what undo() does when the closure it runs in sees the stack h
UndoWith(h, op) ==
    IF h.past = <<>> THEN
        /\ UNCHANGED <<pageVars, canvasVars, timers, modeVars>>
        /\ Obs(op, "undo", 0)
    ELSE
        LET previous == RenderSnapshot(Last(h.past)) IN
        /\ elements' = previous.elements
        /\ settings' = previous.canvasSettings
        /\ history' = [UndoStack(h) EXCEPT !.present = previous]
        /\ UNCHANGED <<selectedElementIds, now, kb, activeTool, canvasVars, timers, modeVars>>
        /\ Obs(op, "undo", 0)

\* what redo() does when the closure it runs in sees the stack h
RedoWith(h, op) ==
    IF h.future = <<>> THEN
        /\ UNCHANGED <<pageVars, canvasVars, timers, modeVars>>
        /\ Obs(op, "redo", 0)
    ELSE
        LET next == RenderSnapshot(h.future[1]) IN
        /\ elements' = next.elements
        /\ settings' = next.canvasSettings
        /\ history' = [RedoStack(h) EXCEPT !.present = next]
        /\ UNCHANGED <<selectedElementIds, now, kb, activeTool, canvasVars, timers, modeVars>>
        /\ Obs(op, "redo", 0)

\* the Undo / Redo buttons: onClick={undo} of the current render
undo == UndoWith(history, "undo")
redo == RedoWith(history, "redo")

\* Ctrl/Cmd+Z and Ctrl/Cmd+Y: undo / redo of the render the listener was registered in
keyUndo == UndoWith(kb.history, "keyUndo")
keyRedo == RedoWith(kb.history, "keyRedo")

\* Delete / Backspace pressed outside an input field: deleteSelectedElements of the
\* render the listener was registered in
keyDelete ==
    LET keep(el) == el.id \notin Range(kb.selectedElementIds)
        remainingElements == SeqFilter(keep, kb.elements) IN
    /\ Len(kb.selectedElementIds) > 0
    /\ elements' = SortLayers(remainingElements)
    /\ selectedElementIds' = <<>>
    /\ history' = saveToHistory(history, "delete_elements", Some(elements'), Absent,
                                kb.elements, kb.settings, now)
    /\ now' = now + 1
    /\ kb' = Closure(history', elements', <<>>, settings)
    /\ UNCHANGED <<settings, activeTool, canvasVars, timers, modeVars>>
    /\ Obs("keyDelete", "commit", 1)

\* ---------------------------------------------------------------- elements
GeometryTypes == {"text", "label", "signature", "media"}
Handles == {"nw", "n", "ne", "e", "se", "s", "sw", "w"}

\* pointer positions of the explored events, in pixels from the canvas origin
\* (clientX - rect.left, clientY - rect.top)
Points == {<<150, 120>>, <<400, 300>>}
\* the shift key at the click that follows a release
ClickShift == BOOLEAN
\* where the text and label tools are used in the explored runs
ToolPoints == {<<110, 110>>}
\* pointer directions of the explored rotation moves, degrees as atan2 returns them
MoveAngles == {0, 135, -90}
\* distance of the pointer from the element centre in a rotation event
HandleDist == 50
\* values typed into the width / height inputs of the properties panel
PanelSizes == {10}
\* positions of the rotation slider, its two ends among them
PanelRotations == {0, 90, 360}

\* (e.clientX - rect.left) / scale, (e.clientY - rect.top) / scale
toCanvasSpace(o, sc) == <<o[1] \div sc, o[2] \div sc>>

\* Math.max(...elements.map(el => el.zIndex), 0)
MaxZIndex(els) ==
    LET zs == {els[i].zIndex : i \in 1..Len(els)} \cup {0} IN
    CHOOSE m \in zs : \A z \in zs : z <= m

NewElement(type, id, x, y, w, h, z) ==
    [id |-> id, type |-> type, x |-> x, y |-> y, width |-> w, height |-> h,
     rotation |-> 0, zIndex |-> z, visible |-> TRUE]

\* elements.findIndex(el => el.id === id), 0 when there is none
IndexOfId(els, id) ==
    IF \E i \in 1..Len(els) : els[i].id = id
    THEN CHOOSE i \in 1..Len(els) : els[i].id = id /\ \A j \in 1..(i - 1) : els[j].id # id
    ELSE 0

Contains(el, p) ==
    /\ p[1] >= el.x /\ p[1] <= el.x + el.width
    /\ p[2] >= el.y /\ p[2] <= el.y + el.height

\* [...elements].reverse().find(text or label whose box holds (x, y)): its index, 0 when none
HitIndex(els, p) ==
    LET hits == {i \in 1..Len(els) : els[i].type \in {"text", "label"} /\ Contains(els[i], p)} IN
    IF hits = {} THEN 0 ELSE CHOOSE i \in hits : \A j \in hits : j <= i

\* an additive select that appends the id whether or not it is selected
selectAppends(sel, elementId, isShiftClick) ==
    IF isShiftClick THEN Append(sel, elementId) ELSE <<elementId>>

\* selectElement(elementId, isShiftClick)
selectElement(sel, elementId, isShiftClick) ==
    IF isShiftClick THEN
        IF elementId \in Range(sel)
        THEN LET keep(id) == id # elementId IN SeqFilter(keep, sel)
        ELSE Append(sel, elementId)
    ELSE <<elementId>>

\* selectedElement of the properties panel: the only selected element, index 0 when none
SelectedIndex ==
    LET idx == {i \in 1..Len(elements) : elements[i].id \in Range(selectedElementIds)} IN
    IF Cardinality(idx) = 1 THEN CHOOSE i \in idx : TRUE ELSE 0

\* ------------------------------------------------ page.tsx: element actions
\* updateElements(newElements, operation, newSelectedIds?) as the only state change
\* of a handler of the page; a call of setSelectedElementIds re-registers the
\* keydown listener after the render
updateElements(newElements, operation, newSelectedIds) ==
    /\ elements' = SortLayers(newElements)
    /\ selectedElementIds' = IF newSelectedIds = Absent THEN selectedElementIds ELSE newSelectedIds[1]
    /\ history' = saveToHistory(history, operation, Some(elements'), Absent, elements, settings, now)
    /\ now' = now + 1
    /\ kb' = IF newSelectedIds = Absent THEN kb
             ELSE Closure(history', elements', selectedElementIds', settings)
    /\ UNCHANGED <<settings, canvasVars, timers, modeVars>>

\* handleSignatureConfirm: the Signature button, then the modal confirmed
handleSignatureConfirm ==
    LET id == now
        el == NewElement("signature", id, 100, 100, 200, 100, MaxZIndex(elements) + 1) IN
    /\ updateElements(Append(elements, el), "add_signature", Some(<<id>>))
    /\ activeTool' = "cursor"
    /\ Obs("handleSignatureConfirm", "commit", 1)

\* handleMediaConfirm: the Media button, then the modal confirmed
handleMediaConfirm ==
    LET id == now
        el == NewElement("media", id, 100, 100, 200, 200, MaxZIndex(elements) + 1) IN
    /\ updateElements(Append(elements, el), "add_media", Some(<<id>>))
    /\ activeTool' = "cursor"
    /\ Obs("handleMediaConfirm", "commit", 1)

\* the Cursor / Text / Label buttons of the toolbar
setActiveTool(tool) ==
    /\ activeTool' = tool
    /\ UNCHANGED <<elements, selectedElementIds, settings, history, now, kb, canvasVars, timers, modeVars>>
    /\ Obs("setActiveTool", "other", 0)

\* updateElementProperty(elementId, updates, operation)
updateElementProperty(elementId, prop, value, operation) ==
    LET upd(el) == IF el.id = elementId THEN [el EXCEPT ![prop] = value] ELSE el IN
    /\ elements' = SortLayers(SeqMap(upd, elements))
    /\ history' = saveToHistory(history, operation, Some(elements'), Absent, elements, settings, now)
    /\ now' = now + 1
    /\ UNCHANGED <<selectedElementIds, settings, kb, activeTool, canvasVars, timers, modeVars>>

\* onChange of the Width / Height input of a selected signature or media element:
\* parseInt(value) || 1, then Math.max(1, value)
panelSize(prop, value) ==
    LET i == SelectedIndex IN
    /\ i # 0
    /\ elements[i].type \in {"signature", "media"}
    /\ updateElementProperty(elements[i].id, prop, Max2(1, IF value = 0 THEN 1 ELSE value),
                             IF elements[i].type = "signature" THEN "resize_signature"
                             ELSE "resize_media")
    /\ Obs("panelSize", "commit", 1)

\* onChange of the rotation slider (parseInt(value), min 0, max 360) and of the rotation
\* number input (Math.max(0, Math.min(360, parseInt(value) || 0))) of the selected element
panelRotation(value) ==
    LET i == SelectedIndex IN
    /\ i # 0
    /\ elements[i].type \in GeometryTypes
    /\ updateElementProperty(elements[i].id, "rotation", Max2(0, Min2(FullTurn, value)), "rotate_element")
    /\ Obs("panelRotation", "commit", 1)

\* template files the user may load
Templates ==
    {[elements |-> Some(<<NewElement("text", 1000, 110, 110, 100, 40, 1)>>),
      canvasSettings |-> Some([meshColor |-> "#000000", backgroundColor |-> "", canvasRatio |-> "4:3",
                               showGrid |-> FALSE])],
     [elements |-> Some(<<>>), canvasSettings |-> Absent]}

\* a || b on strings
OrElse(a, b) == IF a = "" THEN b ELSE a

\* reader.onload of loadTemplate: the file parsed without error
loadTemplate(template) ==
    /\ elements' = IF template.elements = Absent THEN elements
                   ELSE SortLayers(template.elements[1])
    /\ settings' = IF template.canvasSettings = Absent THEN settings
                   ELSE LET cs == template.canvasSettings[1] IN
                        [settings EXCEPT !.meshColor = OrElse(cs.meshColor, "#e2e8f0"),
                                         !.backgroundColor = OrElse(cs.backgroundColor, "#ffffff"),
                                         !.canvasRatio = OrElse(cs.canvasRatio, "16:9"),
                                         !.showGrid = (cs.showGrid # FALSE)]
    /\ selectedElementIds' = <<>>
    /\ kb' = Closure(history, elements', selectedElementIds', settings')
    /\ UNCHANGED <<history, now, activeTool, canvasVars, timers, modeVars>>
    /\ Obs("loadTemplate", "other", 0)

\* ------------------------------------------------ Canvas.tsx: what is under the pointer
Abs(n) == IF n < 0 THEN -n ELSE n
Truthy(id) == id # Null /\ id # EmptyId

\* a vector of the element's own frame turned by the CSS rotate(deg) of the element
RotateLocal(v, deg) ==
    CASE deg % FullTurn = 0 -> v
      [] deg % FullTurn = 90 -> <<-v[2], v[1]>>
      [] deg % FullTurn = 180 -> <<-v[1], -v[2]>>
      [] deg % FullTurn = 270 -> <<v[2], -v[1]>>

\* the box the browser paints for el (turned about its centre) holds p;
\* offsets from the centre are doubled to stay whole
Painted(el, p) ==
    LET dx == 2 * p[1] - (2 * el.x + el.width)
        dy == 2 * p[2] - (2 * el.y + el.height)
        r == el.rotation % 180
    IN CASE r = 0 -> Abs(dx) <= el.width /\ Abs(dy) <= el.height
         [] r = 90 -> Abs(dy) <= el.width /\ Abs(dx) <= el.height
         [] r = 45 -> /\ (dx + dy) * (dx + dy) <= 2 * el.width * el.width
                      /\ (dy - dx) * (dy - dx) <= 2 * el.height * el.height
         [] r = 135 -> /\ (dy - dx) * (dy - dx) <= 2 * el.width * el.width
                       /\ (dx + dy) * (dx + dy) <= 2 * el.height * el.height

\* the rendered element painted on top at p (its index, 0 when the bare canvas is):
\* signature and media carry their zIndex as CSS z-index, text and label are painted
\* below them in render order (.sort((a, b) => a.zIndex - b.zIndex))
DomTarget(els, p) ==
    LET shown == {i \in 1..Len(els) : els[i].visible /\ Painted(els[i], p)}
        blocks == {i \in shown : els[i].type \in {"signature", "media"}}
        cand == IF blocks # {} THEN blocks ELSE shown
    IN IF cand = {} THEN 0
       ELSE CHOOSE i \in cand :
              \A j \in cand : els[j].zIndex < els[i].zIndex
                              \/ (els[j].zIndex = els[i].zIndex /\ j <= i)

\* half of the 12px (signature, media) resp. 8px (text, label) square of a handle, at most
HandleReach == 8
\* the centre of the rotation handle lies 12px above the top edge (top: -20px, 16px wide)
RotateHandleGap == 12

\* where the handle sits, in the frame of the element: offsets from its centre
HandleLocal(el, handle) ==
    LET hw == el.width \div 2
        hh == el.height \div 2
    IN CASE handle = "nw" -> <<-hw, -hh>>
         [] handle = "n" -> <<0, -hh>>
         [] handle = "ne" -> <<hw, -hh>>
         [] handle = "e" -> <<hw, 0>>
         [] handle = "se" -> <<hw, hh>>
         [] handle = "s" -> <<0, hh>>
         [] handle = "sw" -> <<-hw, hh>>
         [] handle = "w" -> <<-hw, 0>>
         [] handle = "rotate" -> <<0, -(hh + RotateHandleGap)>>

\* the canvas point of a handle of el; explored for elements of even size turned by
\* a multiple of 90 degrees, where the point has whole coordinates
HandlePoint(el, handle) ==
    LET v == RotateLocal(HandleLocal(el, handle), el.rotation) IN
    <<el.x + el.width \div 2 + v[1], el.y + el.height \div 2 + v[2]>>
WholeHandles(el) ==
    el.rotation % 90 = 0 /\ el.width % 2 = 0 /\ el.height % 2 = 0

\* the handles are rendered for a selected, rendered element; those of a text or a
\* label only outside the preview
HandlesShown(i) ==
    /\ elements[i].visible
    /\ elements[i].id \in Range(selectedElementIds)
    /\ elements[i].type \in {"text", "label"} => ~isPreviewMode

\* p lies on a handle of some element that shows its handles
OnSomeHandle(p) ==
    \E i \in 1..Len(elements) :
        /\ HandlesShown(i)
        /\ WholeHandles(elements[i])
        /\ \E h \in Handles \cup {"rotate"} :
              LET hp == HandlePoint(elements[i], h) IN
              Abs(p[1] - hp[1]) <= HandleReach /\ Abs(p[2] - hp[2]) <= HandleReach

\* the pressed primary button, for the click that follows its release
Press(target) == IF pressTarget = Null THEN target ELSE pressTarget

\* ------------------------------------------------ observations of pointer events
\* g: the grab offset of a press on an element, the start geometry <<x, y, width, height>>
\* of a press on a resize handle
PointerEvent(kind, id, p, g, shift) == [k |-> kind, id |-> id, p |-> p, g |-> g, shift |-> shift]
Opened(ev) == IF trail = <<>> THEN <<ev>> ELSE Extend(ev)
Moved(p) == IF trail = <<>> THEN trail ELSE Extend(PointerEvent("move", Null, p, <<0, 0>>, FALSE))

\* ------------------------------------------------ Canvas.tsx: pointer-down handlers
\* handleMouseDown of the canvas: the press reached the canvas div, from the bare
\* canvas or bubbling from a text / label element; jsonKey: the prompt was answered
handleMouseDown(o, isShiftClick, jsonKey) ==
    LET p == toCanvasSpace(o, scale)
        t == DomTarget(elements, p)
        hit == HitIndex(elements, p)
        id == now
        creates == activeTool = "text" \/ (activeTool = "label" /\ jsonKey)
        newElement == IF activeTool = "text"
                      THEN NewElement("text", id, p[1], p[2], 100, 40, MaxZIndex(elements) + 1)
                      ELSE NewElement("label", id, p[1], p[2], 120, 40, MaxZIndex(elements) + 1)
    IN
    /\ ~isPreviewMode
    /\ ~OnSomeHandle(p)
    /\ IF t = 0 THEN TRUE ELSE elements[t].type \in {"text", "label"}
    /\ pressTarget' = Press(IF t = 0 THEN EmptyId ELSE elements[t].id)
    /\ UNCHANGED <<settings, scale, timers, modeVars>>
    /\ IF creates THEN
           /\ elements' = SortLayers(Append(elements, newElement))
           /\ selectedElementIds' = selectElement(<<id>>, id, FALSE)
           /\ history' = saveToHistory(history, IF activeTool = "text" THEN "add_text" ELSE "add_label",
                                       Some(elements'), Absent, elements, settings, now)
           /\ now' = now + 1
           /\ kb' = Closure(history', elements', selectedElementIds', settings)
           /\ activeTool' = "cursor"
           /\ UNCHANGED gestureVars
           /\ ObsPointer("handleMouseDown", "commit", 1,
                         Opened(PointerEvent("downTool", id, p, <<0, 0>>, isShiftClick)))
       ELSE IF activeTool = "label" THEN
           /\ UNCHANGED <<elements, selectedElementIds, history, now, kb, activeTool, gestureVars>>
           /\ ObsPointer("handleMouseDown", "other", 0,
                         Opened(PointerEvent("downTool", Null, p, <<0, 0>>, isShiftClick)))
       ELSE IF activeTool # "cursor" THEN
           /\ activeTool' = "cursor"
           /\ UNCHANGED <<elements, selectedElementIds, history, now, kb, gestureVars>>
           /\ ObsPointer("handleMouseDown", "other", 0,
                         Opened(PointerEvent("downTool", Null, p, <<0, 0>>, isShiftClick)))
       ELSE IF hit # 0 THEN
           LET clickedElement == elements[hit]
               grab == <<p[1] - clickedElement.x, p[2] - clickedElement.y>> IN
           /\ selectedElementIds' = selectElement(selectedElementIds, clickedElement.id, isShiftClick)
           /\ kb' = Closure(history, elements, selectedElementIds', settings)
           /\ IF ~isShiftClick
              THEN /\ potentialDragElement' = clickedElement.id
                   /\ dragStart' = [x |-> grab[1], y |-> grab[2]]
              ELSE UNCHANGED <<potentialDragElement, dragStart>>
           /\ UNCHANGED <<elements, history, now, activeTool, isDragging, dragElementId,
                          isResizing, resizeHandle, resizeStart, isRotating, rotateStart>>
           /\ ObsPointer("handleMouseDown", "other", 0,
                         Opened(PointerEvent(IF t = hit THEN "downElement" ELSE "downOther",
                                             clickedElement.id, p, grab, isShiftClick)))
       ELSE
           /\ selectedElementIds' = selectElement(selectedElementIds, EmptyId, FALSE)
           /\ kb' = Closure(history, elements, selectedElementIds', settings)
           /\ UNCHANGED <<elements, history, now, activeTool, gestureVars>>
           /\ ObsPointer("handleMouseDown", "other", 0,
                         Opened(PointerEvent("downCanvas", Null, p, <<0, 0>>, isShiftClick)))

\* onMouseDown of a signature / media element (stopPropagation: the canvas handler does not run)
elementMouseDown(o, isShiftClick) ==
    LET p == toCanvasSpace(o, scale)
        t == DomTarget(elements, p) IN
    /\ ~isPreviewMode
    /\ ~OnSomeHandle(p)
    /\ t # 0
    /\ elements[t].type \in {"signature", "media"}
    /\ LET el == elements[t]
           grab == <<p[1] - el.x, p[2] - el.y>> IN
       /\ selectedElementIds' = selectElement(selectedElementIds, el.id, isShiftClick)
       /\ kb' = Closure(history, elements, selectedElementIds', settings)
       /\ isDragging' = TRUE
       /\ dragElementId' = el.id
       /\ dragStart' = [x |-> grab[1], y |-> grab[2]]
       /\ pressTarget' = Press(el.id)
       /\ UNCHANGED <<elements, settings, history, now, activeTool, potentialDragElement,
                      isResizing, resizeHandle, resizeStart, isRotating, rotateStart, scale, timers, modeVars>>
       /\ ObsPointer("elementMouseDown", "other", 0,
                     Opened(PointerEvent("downElement", el.id, p, grab, isShiftClick)))

\* the press reaches the handle's own onMouseDown: nothing else is painted over it
HandleReached(i, handle) ==
    /\ elements[i].type \in GeometryTypes
    /\ HandlesShown(i)
    /\ WholeHandles(elements[i])
    /\ DomTarget(elements, HandlePoint(elements[i], handle)) \in {0, i}

\* onMouseDown of one of the 8 resize handles of element i, pressed at its centre
resizeHandleMouseDown(i, handle) ==
    LET el == elements[i]
        hp == HandlePoint(el, handle)
        mouse == toCanvasSpace(<<hp[1] * scale, hp[2] * scale>>, scale) IN
    /\ HandleReached(i, handle)
    /\ isResizing' = TRUE
    /\ resizeHandle' = handle
    /\ dragElementId' = el.id
    /\ resizeStart' = [x |-> mouse[1], y |-> mouse[2], width |-> el.width, height |-> el.height]
    /\ pressTarget' = Press(el.id)
    /\ UNCHANGED <<pageVars, isDragging, dragStart, potentialDragElement, isRotating, rotateStart, scale, timers, modeVars>>
    /\ ObsPointer("resizeHandleMouseDown", "other", 0,
                  Opened(PointerEvent("downResize", el.id, mouse,
                                      <<el.x, el.y, el.width, el.height>>, FALSE)))

\* onMouseDown of the rotation handle of element i, pressed at its centre
rotateHandleMouseDown(i) ==
    LET el == elements[i]
        hp == HandlePoint(el, "rotate")
        mouse == toCanvasSpace(<<hp[1] * scale, hp[2] * scale>>, scale) IN
    /\ HandleReached(i, "rotate")
    /\ isRotating' = TRUE
    /\ dragElementId' = el.id
    /\ rotateStart' = [x |-> mouse[1], y |-> mouse[2], rotation |-> el.rotation]
    /\ pressTarget' = Press(el.id)
    /\ UNCHANGED <<pageVars, isDragging, dragStart, potentialDragElement,
                   isResizing, resizeHandle, resizeStart, scale, timers, modeVars>>
    /\ ObsPointer("rotateHandleMouseDown", "other", 0,
                  Opened(PointerEvent("downRotate", el.id, mouse, <<0, 0>>, FALSE)))

\* ------------------------------------------------ Canvas.tsx: handleMouseMove
\* Math.atan2(dy, dx) * (180 / Math.PI), on the eight directions it is exact for
IsPrincipal(dx, dy) == dx = 0 \/ dy = 0 \/ Abs(dx) = Abs(dy)
calculateRotationAngle(dx, dy) ==
    CASE dy = 0 /\ dx >= 0 -> 0
      [] dy = 0 /\ dx < 0 -> 180
      [] dx = 0 /\ dy > 0 -> 90
      [] dx = 0 /\ dy < 0 -> -90
      [] dx > 0 /\ dy = dx -> 45
      [] dx < 0 /\ dy = -dx -> 135
      [] dx < 0 /\ dy = dx -> -135
      [] dx > 0 /\ dy = -dx -> -45

\* a % n of JavaScript: the sign of the dividend
JsRem(a, n) == IF a >= 0 THEN a % n ELSE -((-a) % n)

\* a unit step in the direction of angle a (degrees, y grows downwards)
Dir(a) ==
    CASE a = 0 -> <<1, 0>>
      [] a = 45 -> <<1, 1>>
      [] a = 90 -> <<0, 1>>
      [] a = 135 -> <<-1, 1>>
      [] a = 180 -> <<-1, 0>>
      [] a = -135 -> <<-1, -1>>
      [] a = -90 -> <<0, -1>>
      [] a = -45 -> <<1, -1>>

\* a resize that grows and shrinks every handle from the origin of the element
ResizedFromOrigin(element, handle, deltaX, deltaY) ==
    LET newWidth == CASE handle \in {"nw", "sw", "w"} -> Max2(MinResizeSize, resizeStart.width - deltaX)
                      [] handle \in {"ne", "se", "e"} -> Max2(MinResizeSize, resizeStart.width + deltaX)
                      [] OTHER -> element.width
        newHeight == CASE handle \in {"nw", "ne", "n"} -> Max2(MinResizeSize, resizeStart.height - deltaY)
                       [] handle \in {"sw", "se", "s"} -> Max2(MinResizeSize, resizeStart.height + deltaY)
                       [] OTHER -> element.height
    IN [element EXCEPT !.width = newWidth, !.height = newHeight]

\* the resize branch: the new box of element for the handle and the pointer delta
Resized(element, handle, deltaX, deltaY) ==
    LET wMinus == Max2(MinResizeSize, resizeStart.width - deltaX)
        wPlus == Max2(MinResizeSize, resizeStart.width + deltaX)
        hMinus == Max2(MinResizeSize, resizeStart.height - deltaY)
        hPlus == Max2(MinResizeSize, resizeStart.height + deltaY)
        newWidth == CASE handle \in {"nw", "sw", "w"} -> wMinus
                      [] handle \in {"ne", "se", "e"} -> wPlus
                      [] OTHER -> element.width
        newHeight == CASE handle \in {"nw", "ne", "n"} -> hMinus
                       [] handle \in {"sw", "se", "s"} -> hPlus
                       [] OTHER -> element.height
        newX == IF handle \in {"nw", "sw", "w"} THEN element.x + (element.width - newWidth)
                ELSE element.x
        newY == IF handle \in {"nw", "ne", "n"} THEN element.y + (element.height - newHeight)
                ELSE element.y
    IN [element EXCEPT !.x = newX, !.y = newY, !.width = newWidth, !.height = newHeight]

\* the rotate branch: the new rotation of element for the pointer at mouse;
\* the angles are taken from the centre, doubled offsets keep them whole
RotateVectors(element, mouse) ==
    [cx |-> 2 * mouse[1] - (2 * element.x + element.width),
     cy |-> 2 * mouse[2] - (2 * element.y + element.height),
     sx |-> 2 * rotateStart.x - (2 * element.x + element.width),
     sy |-> 2 * rotateStart.y - (2 * element.y + element.height)]
Rotated(element, mouse) ==
    LET v == RotateVectors(element, mouse)
        currentAngle == calculateRotationAngle(v.cx, v.cy)
        startAngle == calculateRotationAngle(v.sx, v.sy)
        deltaAngle == currentAngle - startAngle
        rem == JsRem(rotateStart.rotation + deltaAngle, FullTurn)
    IN IF rem < 0 THEN rem + FullTurn ELSE rem

\* handleMouseMove: every condition reads the state of the render the handler belongs to
\* the conditions of handleMouseMove, read from the render the handler belongs to
Promotes ==
    /\ Truthy(potentialDragElement) /\ ~isDragging /\ ~isResizing /\ ~isRotating
    /\ activeTool = "cursor"
DragBranch ==
    /\ isDragging /\ Truthy(dragElementId) /\ activeTool = "cursor"
    /\ ~isResizing /\ ~isRotating
ResizeBranch == ~DragBranch /\ isResizing /\ Truthy(dragElementId) /\ resizeHandle # None
RotateBranch == ~DragBranch /\ ~ResizeBranch /\ isRotating /\ Truthy(dragElementId)

\* a move of a drag that also commits the new position
handleMouseMoveCommits(o) ==
    LET mouse == toCanvasSpace(o, scale)
        moveTo(el) == IF el.id = dragElementId /\ el.type \in GeometryTypes
                      THEN [el EXCEPT !.x = mouse[1] - dragStart.x, !.y = mouse[2] - dragStart.y]
                      ELSE el
    IN
    /\ DragBranch
    /\ elements' = SortLayers(SeqMap(moveTo, elements))
    /\ history' = saveToHistory(history, "move_element", Some(elements'), Absent, elements, settings, now)
    /\ now' = now + 1
    /\ UNCHANGED <<selectedElementIds, settings, kb, activeTool, gestureVars, scale, pressTarget, timers, modeVars>>
    /\ ObsPointer("handleMouseMove", "commit", 1, Moved(mouse))

handleMouseMove(o) ==
    LET mouse == toCanvasSpace(o, scale)
        promotes == Promotes
        drags == DragBranch
        resizes == ResizeBranch
        rotates == RotateBranch
        i == IndexOfId(elements, dragElementId)
        moveTo(el) == IF el.id = dragElementId /\ el.type \in GeometryTypes
                      THEN [el EXCEPT !.x = mouse[1] - dragStart.x, !.y = mouse[2] - dragStart.y]
                      ELSE el
        resizeTo(el) == IF el.id = dragElementId /\ el.type \in GeometryTypes
                        THEN [Resized(elements[i], resizeHandle, mouse[1] - resizeStart.x,
                                      mouse[2] - resizeStart.y)
                                EXCEPT !.id = el.id]
                        ELSE el
        rotateTo(el) == IF el.id = dragElementId /\ el.type \in GeometryTypes
                        THEN [el EXCEPT !.rotation = Rotated(elements[i], mouse)]
                        ELSE el
    IN
    /\ ~isPreviewMode
    /\ IF rotates /\ i # 0
       THEN LET v == RotateVectors(elements[i], mouse) IN
            IsPrincipal(v.cx, v.cy) /\ IsPrincipal(v.sx, v.sy)
       ELSE TRUE
    /\ IF promotes
       THEN /\ isDragging' = TRUE
            /\ dragElementId' = potentialDragElement
            /\ potentialDragElement' = Null
       ELSE UNCHANGED <<isDragging, dragElementId, potentialDragElement>>
    /\ elements' = IF drags THEN SortLayers(SeqMap(moveTo, elements))
                   ELSE IF resizes /\ i # 0 /\ elements[i].type \in GeometryTypes
                        THEN SortLayers(SeqMap(resizeTo, elements))
                   ELSE IF rotates /\ i # 0 /\ elements[i].type \in GeometryTypes
                        THEN SortLayers(SeqMap(rotateTo, elements))
                   ELSE elements
    /\ UNCHANGED <<selectedElementIds, settings, history, now, kb, activeTool, dragStart,
                   isResizing, resizeHandle, resizeStart, isRotating, rotateStart, scale, pressTarget, timers, modeVars>>
    /\ ObsPointer("handleMouseMove", "other", 0, Moved(mouse))

\* the pointer positions of the explored rotation moves: around the centre of the element
RotatePoints ==
    LET i == IndexOfId(elements, dragElementId) IN
    IF isRotating /\ i # 0 /\ elements[i].width % 2 = 0 /\ elements[i].height % 2 = 0
    THEN {<<elements[i].x + elements[i].width \div 2 + HandleDist * Dir(a)[1],
            elements[i].y + elements[i].height \div 2 + HandleDist * Dir(a)[2]>> : a \in MoveAngles}
    ELSE {}

\* ------------------------- Canvas.tsx: the rotate gesture in double precision
\* The angles of a rotation are JavaScript numbers. A double of the explored range
\* is a whole number of units of 2^-46, written <<d, m, l>> for
\* d + m / 2^23 + l / 2^46 with m and l in 0 .. 2^23 - 1 (d is the floor).
Limb == 2^23
Whole(n) == <<n, 0, 0>>
DNorm(d, m, l) ==
    LET l2 == l % Limb
        m1 == m + (l - l2) \div Limb
        m2 == m1 % Limb
    IN <<d + (m1 - m2) \div Limb, m2, l2>>
\* the sum and the negation as real numbers
DSum(a, b) == DNorm(a[1] + b[1], a[2] + b[2], a[3] + b[3])
DNeg(a) == DNorm(-a[1], -a[2], -a[3])
\* the whole part of the magnitude
DMag(a) == IF a[1] >= 0 THEN a[1] ELSE DNeg(a)[1]
\* round to nearest, ties to even: 53 significant bits leave a step of 2^-46 below
\* 128, 2^-45 below 256, 2^-44 below 512, 2^-43 below 1024
DRound(a) ==
    LET step == IF DMag(a) < 128 THEN 1 ELSE IF DMag(a) < 256 THEN 2
                ELSE IF DMag(a) < 512 THEN 4 ELSE 8
        r == a[3] % step
        down == a[3] - r
        up == down + step
        l == IF 2 * r < step THEN down
             ELSE IF 2 * r > step THEN up
             ELSE IF down % (2 * step) = 0 THEN down ELSE up
    IN DNorm(a[1], a[2], l)
\* a + b and a - b of JavaScript
DAdd(a, b) == DRound(DSum(a, b))
DSub(a, b) == DRound(DSum(a, DNeg(b)))
\* a % n of JavaScript for a whole n: exact, the sign of the dividend
DRem(a, n) ==
    IF a[1] >= 0 THEN <<a[1] % n, a[2], a[3]>>
    ELSE LET p == DNeg(a) IN DNeg(<<p[1] % n, p[2], p[3]>>)

\* Math.atan2(dy, dx) * (180 / Math.PI) for the pointer offsets of the explored
\* events, the doubles that fdlibm's atan2 (the one of V8) returns; glibc's agree
AngleOffsets == {<<0, -62>>, <<2, -62>>, <<-2, -62>>, <<5, -62>>, <<-5, -62>>}
calculateRotationAngleF64(dx, dy) ==
    CASE dx = 0 /\ dy = -62 -> <<-90, 0, 0>>
      [] dx = 2 /\ dy = -62 -> <<-89, 7110270, 2165975>>
      [] dx = -2 /\ dy = -62 -> <<-92, 1278337, 6222632>>
      [] dx = 5 /\ dy = -62 -> <<-86, 5122497, 6372917>>
      [] dx = -5 /\ dy = -62 -> <<-95, 3266110, 2015690>>

\* the offsets of the pointer and of the press from the centre of the element
\* (even sizes: the centre has whole coordinates)
CentreOffsets(element, mouse) ==
    [c |-> <<mouse[1] - (element.x + element.width \div 2),
             mouse[2] - (element.y + element.height \div 2)>>,
     s |-> <<rotateStart.x - (element.x + element.width \div 2),
             rotateStart.y - (element.y + element.height \div 2)>>]

\* the rotate branch of handleMouseMove
RotatedF64(element, mouse) ==
    LET v == CentreOffsets(element, mouse)
        currentAngle == calculateRotationAngleF64(v.c[1], v.c[2])
        startAngle == calculateRotationAngleF64(v.s[1], v.s[2])
        deltaAngle == DSub(currentAngle, startAngle)
        rem == DRem(DAdd(rotateStart.rotation, deltaAngle), FullTurn)
    IN IF rem[1] < 0 THEN DAdd(rem, Whole(FullTurn)) ELSE rem

\* handleMouseMove with the rotation of the elements held as doubles
handleMouseMoveF64(o) ==
    LET mouse == toCanvasSpace(o, scale)
        promotes == Promotes
        drags == DragBranch
        resizes == ResizeBranch
        rotates == RotateBranch
        i == IndexOfId(elements, dragElementId)
        moveTo(el) == IF el.id = dragElementId /\ el.type \in GeometryTypes
                      THEN [el EXCEPT !.x = mouse[1] - dragStart.x, !.y = mouse[2] - dragStart.y]
                      ELSE el
        resizeTo(el) == IF el.id = dragElementId /\ el.type \in GeometryTypes
                        THEN [Resized(elements[i], resizeHandle, mouse[1] - resizeStart.x,
                                      mouse[2] - resizeStart.y)
                                EXCEPT !.id = el.id]
                        ELSE el
        rotateTo(el) == IF el.id = dragElementId /\ el.type \in GeometryTypes
                        THEN [el EXCEPT !.rotation = RotatedF64(elements[i], mouse)]
                        ELSE el
    IN
    /\ ~isPreviewMode
    /\ IF rotates /\ i # 0
       THEN LET v == CentreOffsets(elements[i], mouse) IN
            v.c \in AngleOffsets /\ v.s \in AngleOffsets
       ELSE TRUE
    /\ IF promotes
       THEN /\ isDragging' = TRUE
            /\ dragElementId' = potentialDragElement
            /\ potentialDragElement' = Null
       ELSE UNCHANGED <<isDragging, dragElementId, potentialDragElement>>
    /\ elements' = IF drags THEN SortLayers(SeqMap(moveTo, elements))
                   ELSE IF resizes /\ i # 0 /\ elements[i].type \in GeometryTypes
                        THEN SortLayers(SeqMap(resizeTo, elements))
                   ELSE IF rotates /\ i # 0 /\ elements[i].type \in GeometryTypes
                        THEN SortLayers(SeqMap(rotateTo, elements))
                   ELSE elements
    /\ UNCHANGED <<selectedElementIds, settings, history, now, kb, activeTool, dragStart,
                   isResizing, resizeHandle, resizeStart, isRotating, rotateStart, scale, pressTarget, timers, modeVars>>
    /\ ObsPointer("handleMouseMoveF64", "other", 0, Moved(mouse))

\* the rotation handle is a disc of 16 px whose centre lies RotateHandleGap above the
\* top edge and turns with the element: the pixel over the centre of the handle of
\* the upright element stays on the handle while the element is turned by less
\* than 7 degrees either way (the centre of the handle then moves by less than
\* HandleReach)
UprightHandlePixel(el) ==
    <<el.x + el.width \div 2, el.y - RotateHandleGap>>
HandleStillUnder(el) ==
    el.rotation[1] < 7 \/ el.rotation[1] >= FullTurn - 7

\* onMouseDown of the rotation handle of element i, the pointer over the pixel p
rotateHandleMouseDownF64(i, p) ==
    LET el == elements[i]
        mouse == toCanvasSpace(<<p[1] * scale, p[2] * scale>>, scale) IN
    /\ HandlesShown(i)
    /\ el.type \in GeometryTypes
    /\ el.width % 2 = 0 /\ el.height % 2 = 0
    /\ p = UprightHandlePixel(el)
    /\ HandleStillUnder(el)
    /\ isRotating' = TRUE
    /\ dragElementId' = el.id
    /\ rotateStart' = [x |-> mouse[1], y |-> mouse[2], rotation |-> el.rotation]
    /\ pressTarget' = Press(el.id)
    /\ UNCHANGED <<pageVars, isDragging, dragStart, potentialDragElement,
                   isResizing, resizeHandle, resizeStart, scale, timers, modeVars>>
    /\ ObsPointer("rotateHandleMouseDownF64", "other", 0,
                  Opened(PointerEvent("downRotate", el.id, mouse, <<0, 0>>, FALSE)))

\* the pointer positions of the explored moves of a rotation: on the row of the press
TurnPoints ==
    LET i == IndexOfId(elements, dragElementId) IN
    IF isRotating /\ i # 0
    THEN {<<elements[i].x + elements[i].width \div 2 + o[1],
            elements[i].y + elements[i].height \div 2 + o[2]>> : o \in AngleOffsets}
    ELSE {}

\* ------------------------------------------------ Canvas.tsx: handleMouseUp
\* the updateElements calls of handleMouseUp, in order
EndedGestures ==
    (IF isDragging /\ Truthy(dragElementId) THEN <<"move_element">> ELSE <<>>)
    \o (IF isResizing /\ Truthy(dragElementId) THEN <<"resize_element">> ELSE <<>>)
    \o (IF isRotating /\ Truthy(dragElementId) THEN <<"rotate_element">> ELSE <<>>)

\* the stack after updateElements(elements, op) for each op, the clock read at t, t + 1, ...
RECURSIVE CommitAll(_, _, _)
CommitAll(h, ops, t) ==
    IF ops = <<>> THEN h
    ELSE CommitAll(saveToHistory(h, ops[1], Some(elements), Absent, elements, settings, t),
                   Tail(ops), t + 1)

\* handleMouseUp, then the click handler of clicked (an element index, 0 for none)
MouseUpAnd(clicked, isShiftClick, op) ==
    LET ops == EndedGestures
        selects == /\ clicked # 0
                   /\ elements[clicked].visible
                   /\ elements[clicked].type \in {"text", "label"} => activeTool = "cursor"
    IN
    /\ ~isPreviewMode
    /\ history' = CommitAll(history, ops, now)
    /\ now' = now + Len(ops)
    /\ elements' = SortLayers(elements)
    /\ isDragging' = FALSE
    /\ dragElementId' = Null
    /\ potentialDragElement' = Null
    /\ dragStart' = [x |-> 0, y |-> 0]
    /\ isResizing' = FALSE
    /\ resizeHandle' = None
    /\ resizeStart' = [x |-> 0, y |-> 0, width |-> 0, height |-> 0]
    /\ isRotating' = FALSE
    /\ rotateStart' = [x |-> 0, y |-> 0, rotation |-> 0]
    /\ pressTarget' = Null
    /\ selectedElementIds' = IF selects
                             THEN selectElement(selectedElementIds, elements[clicked].id, isShiftClick)
                             ELSE selectedElementIds
    /\ kb' = IF selects THEN Closure(history', elements', selectedElementIds', settings) ELSE kb
    /\ UNCHANGED <<settings, activeTool, scale, timers, modeVars>>
    /\ ObsPointer(op, IF ops = <<>> THEN "other" ELSE "commit", Len(ops), <<>>)

\* onMouseUp of the canvas: the pressed button is released over the element it
\* went down on, whose onClick runs next
handleMouseUp(isShiftClick) ==
    /\ pressTarget # Null
    /\ MouseUpAnd(IndexOfId(elements, pressTarget), isShiftClick, "handleMouseUp")

\* onMouseLeave of the canvas: handleMouseUp alone
handleMouseLeave ==
    MouseUpAnd(0, FALSE, "handleMouseLeave")

\* ---------------------------------------------------------------------- Spec
\* the editor: element creation, the properties panel and the pointer gestures
Commits == now - 1
\* the toolbar, the modals and the panel are operated by clicks: no button is held on the canvas
Released == pressTarget = Null
\* a press lasts at most MaxTrail pointer events before the button is released
InPress == pressTarget # Null /\ Len(trail) < MaxTrail
\* the gestures of the current history that ended with a commit
GestureOps == {"move_element", "resize_element", "rotate_element"}
Gestures ==
    Cardinality({i \in 1..Len(history.past) : history.past[i].operation \in GestureOps})
    + (IF history.present.operation \in GestureOps THEN 1 ELSE 0)
CanPress == Len(trail) < MaxTrail /\ Gestures < MaxGestures
\* the offset of canvas point p from the canvas origin on the screen
Screen(p) == <<p[1] * scale, p[2] * scale>>

Next ==
    \/ (Released /\ Commits < MaxCommits /\ Len(elements) < MaxElements /\ handleSignatureConfirm)
    \/ (Released /\ Commits < MaxCommits /\ Len(elements) < MaxElements /\ handleMediaConfirm)
    \/ (Released /\ Commits < MaxCommits
          /\ \E prop \in {"width", "height"}, v \in PanelSizes : panelSize(prop, v))
    \/ (Released /\ Commits < MaxCommits /\ \E v \in PanelRotations : panelRotation(v))
    \/ (Released /\ \E tool \in {"cursor", "text", "label"} : setActiveTool(tool))
    \/ (Commits < MaxCommits /\ keyDelete)
    \/ (CanPress /\ \E p \in Points \cup ToolPoints, shift \in BOOLEAN, key \in BOOLEAN :
            /\ IF activeTool = "cursor" THEN p \in Points
               ELSE Commits < MaxCommits /\ Len(elements) < MaxElements /\ p \in ToolPoints
            /\ handleMouseDown(Screen(p), shift, key))
    \/ (CanPress /\ \E p \in Points, shift \in BOOLEAN : elementMouseDown(Screen(p), shift))
    \/ (CanPress /\ \E i \in 1..Len(elements), handle \in Handles : resizeHandleMouseDown(i, handle))
    \/ (CanPress /\ \E i \in 1..Len(elements) : rotateHandleMouseDown(i))
    \/ (InPress /\ \E p \in Points \cup RotatePoints : handleMouseMove(Screen(p)))
    \/ (\E shift \in ClickShift : handleMouseUp(shift))
    \/ handleMouseLeave

Spec == Init /\ [][Next]_vars

\* ------------------------------------------------------------------- SpecDoc
\* the document and its history: commits made while no gesture is in progress,
\* template loading, and undo / redo from the buttons and from the keyboard
NextDoc ==
    \/ (Commits < MaxDocCommits /\ clearCanvas)
    \/ (Commits < MaxDocCommits /\ updateShowGrid)
    \/ (Commits < MaxDocCommits /\ Len(elements) < MaxElements /\ handleSignatureConfirm)
    \/ (Commits < MaxDocCommits /\ Len(elements) < MaxElements /\ handleMediaConfirm)
    \/ (Commits < MaxDocCommits
          /\ \E prop \in {"width", "height"}, v \in PanelSizes : panelSize(prop, v))
    \/ (\E template \in Templates : loadTemplate(template))
    \/ undo
    \/ redo
    \/ keyUndo
    \/ keyRedo

SpecDoc == Init /\ [][NextDoc]_vars

\* --------------------------------------------------------------- SpecHistory
NearCapacity == Commits >= NavFrom

NextHistory ==
    \/ (Commits < MaxHistCommits /\ Commits < MaxClearTime /\ clearCanvas)
    \/ (Commits < MaxHistCommits /\ Len(history.future) <= MaxBranchDepth /\ updateShowGrid)
    \/ (NearCapacity /\ undo)
    \/ (NearCapacity /\ redo)
    \/ (NearCapacity /\ keyUndo)
    \/ (NearCapacity /\ keyRedo)

SpecHistory == Init /\ [][NextHistory]_vars

\* ---------------------------------------------------------------- SpecRotate
\* rotation gestures on one signature element, the angles in double precision.
\* The editor right after the Signature button and the confirm of its modal:
\* the new element is on the canvas, selected, and committed as add_signature.
InitRotate ==
    LET el == [NewElement("signature", 1, 100, 100, 200, 100, 1) EXCEPT !.rotation = Whole(0)]
        h == saveToHistory(InitHistory, "add_signature", Some(<<el>>), Absent, <<>>, InitSettings, 1)
    IN
    /\ elements = <<el>>
    /\ selectedElementIds = <<1>>
    /\ settings = InitSettings
    /\ history = h
    /\ now = 2
    /\ kb = Closure(h, <<el>>, <<1>>, InitSettings)
    /\ activeTool = "cursor"
    /\ isDragging = FALSE
    /\ dragStart = [x |-> 0, y |-> 0]
    /\ dragElementId = Null
    /\ potentialDragElement = Null
    /\ isResizing = FALSE
    /\ resizeHandle = None
    /\ resizeStart = [x |-> 0, y |-> 0, width |-> 0, height |-> 0]
    /\ isRotating = FALSE
    /\ rotateStart = [x |-> 0, y |-> 0, rotation |-> 0]
    /\ scale = 1
    /\ pressTarget = Null
    /\ timers = NoTimers
    /\ isPreviewMode = FALSE
    /\ touchStart = Null
    /\ lastOp = "handleSignatureConfirm"
    /\ run = NoRun
    /\ preUndo = NoPreUndo
    /\ trail = <<>>

NextRotate ==
    \/ (Released /\ Gestures < MaxTurns
          /\ \E i \in 1..Len(elements) : rotateHandleMouseDownF64(i, UprightHandlePixel(elements[i])))
    \/ (InPress /\ \E p \in TurnPoints : handleMouseMoveF64(Screen(p)))
    \/ (\E shift \in ClickShift : handleMouseUp(shift))

SpecRotate == InitRotate /\ [][NextRotate]_vars

\* ------------------------------------ page.tsx: debounced edits and the layers panel
\* what the user types into the Text Content field and into a layer's name field
Typed == {"a", "b"}

\* a pending timer: the array its callback hands to saveToHistory, the canvas settings
\* of the render its saveToHistory belongs to, and whether a layerRenameTimeout set
\* before it is still pending (500 ms against 1000 ms: that one is due first)
Timer(newElements, cs, waits) == Some([newElements |-> newElements, settings |-> cs, waits |-> waits])
\* the other timer was cancelled, or has fired
Freed(timer) == IF timer = Absent THEN Absent ELSE Some([timer[1] EXCEPT !.waits = FALSE])

\* onChange of the Text Content field of the properties panel
editText(value) ==
    LET i == SelectedIndex
        upd(el) == IF el.id = elements[i].id THEN Spread(el, "text", value) ELSE el IN
    /\ i # 0
    /\ elements[i].type = "text"
    /\ elements' = SortLayers(SeqMap(upd, elements))
    /\ timers' = [timers EXCEPT !.textInputTimeout =
                      Timer(elements', settings, timers.layerRenameTimeout # Absent)]
    /\ UNCHANGED <<selectedElementIds, settings, history, now, kb, activeTool, canvasVars, modeVars>>
    /\ Obs("editText", "other", 0)

\* renameLayer(elementId, newName): onChange of the name field of layer i
renameLayer(i, newName) ==
    LET upd(el) == IF el.id = elements[i].id THEN Spread(el, "name", newName) ELSE el IN
    /\ elements' = SortLayers(SeqMap(upd, elements))
    /\ timers' = [textInputTimeout |-> Freed(timers.textInputTimeout),
                  layerRenameTimeout |-> Timer(elements', settings, FALSE)]
    /\ UNCHANGED <<selectedElementIds, settings, history, now, kb, activeTool, canvasVars, modeVars>>
    /\ Obs("renameLayer", "other", 0)

\* the callback of window.textInputTimeout runs, 1000 ms after the last keystroke
textInputTimeout ==
    /\ timers.textInputTimeout # Absent
    /\ ~timers.textInputTimeout[1].waits
    /\ LET timer == timers.textInputTimeout[1] IN
       history' = saveToHistory(history, "edit_text", Some(timer.newElements), Absent,
                                timer.newElements, timer.settings, now)
    /\ now' = now + 1
    /\ timers' = [timers EXCEPT !.textInputTimeout = Absent]
    /\ UNCHANGED <<elements, selectedElementIds, settings, kb, activeTool, canvasVars, modeVars>>
    /\ Obs("textInputTimeout", "commit", 1)

\* the callback of window.layerRenameTimeout runs, 500 ms after the last rename
layerRenameTimeout ==
    /\ timers.layerRenameTimeout # Absent
    /\ LET timer == timers.layerRenameTimeout[1] IN
       history' = saveToHistory(history, "rename_layer", Some(timer.newElements), Absent,
                                timer.newElements, timer.settings, now)
    /\ now' = now + 1
    /\ timers' = [textInputTimeout |-> Freed(timers.textInputTimeout),
                  layerRenameTimeout |-> Absent]
    /\ UNCHANGED <<elements, selectedElementIds, settings, kb, activeTool, canvasVars, modeVars>>
    /\ Obs("layerRenameTimeout", "commit", 1)

\* onClick of layer i of the layers list
layerClick(i, isShiftClick) ==
    /\ elements[i].visible
    /\ selectedElementIds' = selectElement(selectedElementIds, elements[i].id, isShiftClick)
    /\ kb' = Closure(history, elements, selectedElementIds', settings)
    /\ UNCHANGED <<elements, settings, history, now, activeTool, canvasVars, timers, modeVars>>
    /\ Obs("selectElement", "other", 0)

\* deleteElement(elementId): the trash button of layer i
deleteElement(i) ==
    LET elementId == elements[i].id
        keep(el) == el.id # elementId
        keepId(id) == id # elementId IN
    /\ updateElements(SeqFilter(keep, elements), "delete_element",
                      Some(SeqFilter(keepId, selectedElementIds)))
    /\ UNCHANGED activeTool
    /\ Obs("deleteElement", "commit", 1)

\* Math.max(...elements.map(el => el.zIndex)): -Infinity when there is no element
NegInfinity == -1000000
MaxZIndexOf(els) ==
    IF els = <<>> THEN NegInfinity
    ELSE LET zs == {els[i].zIndex : i \in 1..Len(els)} IN CHOOSE m \in zs : \A z \in zs : z <= m

\* createGroup: the Group button of the layers panel
createGroup ==
    LET groupId == now
        top == MaxZIndexOf(elements)
        newGroup == [id |-> groupId, type |-> "group",
                     name |-> <<"Group", Cardinality({i \in 1..Len(elements) :
                                                          elements[i].type = "group"}) + 1>>,
                     zIndex |-> IF top = NegInfinity THEN NegInfinity ELSE top + 1,
                     visible |-> TRUE, children |-> selectedElementIds]
        upd(el) == IF el.id \in Range(selectedElementIds) /\ el.type = "text"
                   THEN Spread(el, "groupId", groupId) ELSE el
    IN
    /\ Len(selectedElementIds) >= 2
    /\ updateElements(Append(SeqMap(upd, elements), newGroup), "create_group", Some(<<groupId>>))
    /\ UNCHANGED activeTool
    /\ Obs("createGroup", "commit", 1)

\* ungroupElements(selectedElementIds[0]): the Ungroup button, shown while the only
\* selected id is that of a group
ungroupElements ==
    LET groupId == selectedElementIds[1]
        g == IndexOfId(elements, groupId)
        keep(el) == el.id # groupId
        upd(el) == IF el.type = "text" /\ OrDefault(el, "groupId", Null) = groupId
                   THEN Spread(el, "groupId", Null) ELSE el
    IN
    /\ Len(selectedElementIds) = 1
    /\ g # 0
    /\ elements[g].type = "group"
    /\ updateElements(SeqMap(upd, SeqFilter(keep, elements)), "ungroup_elements",
                      Some(elements[g].children))
    /\ UNCHANGED activeTool
    /\ Obs("ungroupElements", "commit", 1)

\* ------------------------------------------------------------------ SpecEdit
\* typing into the Text Content field and renaming layers, among other operations
NextEdit ==
    \/ (Released /\ \E tool \in {"cursor", "text"} : setActiveTool(tool))
    \/ (Released /\ activeTool = "text" /\ Commits < MaxEditCommits /\ Len(elements) < MaxElements
          /\ \E p \in ToolPoints : handleMouseDown(Screen(p), FALSE, FALSE))
    \/ (\E shift \in ClickShift : handleMouseUp(shift))
    \/ (Released /\ \E value \in Typed : editText(value))
    \/ (Released /\ \E i \in 1..Len(elements), newName \in Typed : renameLayer(i, newName))
    \/ (Commits < MaxEditCommits /\ textInputTimeout)
    \/ (Commits < MaxEditCommits /\ layerRenameTimeout)
    \/ (Released /\ Commits < MaxEditCommits /\ updateShowGrid)
    \/ (Released /\ Commits < MaxEditCommits /\ Len(elements) < MaxElements /\ handleSignatureConfirm)
    \/ (Released /\ Commits < MaxEditCommits /\ \E i \in 1..Len(elements) : deleteElement(i))
    \/ (Released /\ undo)

SpecEdit == Init /\ [][NextEdit]_vars

\* ----------------------------------------------------------------- SpecGroup
\* the layers panel: selection, grouping, deletion, with undo and redo
NextGroup ==
    \/ (Commits < MaxGroupCommits /\ Len(elements) < MaxElements /\ handleSignatureConfirm)
    \/ (Commits < MaxGroupCommits /\ Len(elements) < MaxElements /\ handleMediaConfirm)
    \/ (\E i \in 1..Len(elements), shift \in BOOLEAN : layerClick(i, shift))
    \/ (Commits < MaxGroupCommits /\ createGroup)
    \/ (Commits < MaxGroupCommits /\ ungroupElements)
    \/ (Commits < MaxGroupCommits /\ \E i \in 1..Len(elements) : deleteElement(i))
    \/ (Commits < MaxGroupCommits /\ clearCanvas)
    \/ undo
    \/ redo

SpecGroup == Init /\ [][NextGroup]_vars

\* ------------------------------------------------ Canvas.tsx: zoom
\* the zoom scale as a fraction <<n, d>> in lowest terms
RECURSIVE Gcd(_, _)
Gcd(a, b) == IF b = 0 THEN a ELSE Gcd(b, a % b)
Fraction(n, d) == LET g == Gcd(n, d) IN IF g = 0 THEN <<0, 1>> ELSE <<n \div g, d \div g>>

\* a clamp that has no lower limit
ClampNoFloor(r) == IF r[1] > 4 * r[2] THEN <<4, 1>> ELSE r
\* Math.min(Math.max(r, 0.1), 4)
ClampScale(r) ==
    LET floored == IF 10 * r[1] < r[2] THEN <<1, 10>> ELSE r IN
    IF floored[1] > 4 * floored[2] THEN <<4, 1>> ELSE floored

\* wheel deltas and finger distances of the explored runs
WheelDeltas == {-100, 0, 100}
TouchDistances == {0, 100, 400}

\* handleWheel: zoom with Ctrl/Cmd + scroll
handleWheel(deltaY, ctrlKey) ==
    LET scaleFactor == IF deltaY > 0 THEN <<9, 10>> ELSE <<11, 10>>
        newScale == ClampScale(Fraction(scale[1] * scaleFactor[1], scale[2] * scaleFactor[2]))
    IN
    /\ scale' = IF isPreviewMode \/ ~ctrlKey THEN scale ELSE newScale
    /\ UNCHANGED <<pageVars, gestureVars, pressTarget, timers, modeVars>>
    /\ Obs("handleWheel", "other", 0)

\* handleTouchStart with two fingers at the given distance
handleTouchStart(distance) ==
    /\ touchStart' = IF isPreviewMode THEN touchStart ELSE distance
    /\ UNCHANGED <<pageVars, canvasVars, timers, isPreviewMode>>
    /\ Obs("handleTouchStart", "other", 0)

\* handleTouchMove with two fingers at the given distance: pinch zoom
handleTouchMove(distance) ==
    LET zooms == ~isPreviewMode /\ touchStart # Null /\ touchStart > 0
        newScale == ClampScale(Fraction(scale[1] * distance, scale[2] * touchStart))
    IN
    /\ scale' = IF zooms THEN newScale ELSE scale
    /\ touchStart' = IF zooms THEN distance ELSE touchStart
    /\ UNCHANGED <<pageVars, gestureVars, pressTarget, timers, isPreviewMode>>
    /\ Obs("handleTouchMove", "other", 0)

\* handleTouchEnd with fewer than two fingers left
handleTouchEnd ==
    /\ touchStart' = Null
    /\ UNCHANGED <<pageVars, canvasVars, timers, isPreviewMode>>
    /\ Obs("handleTouchEnd", "other", 0)

\* ----------------------------------------------------------------- SpecZoom
\* wheel zoom and pinch zoom, the scale as an exact fraction
InitZoom ==
    /\ elements = <<>>
    /\ selectedElementIds = <<>>
    /\ settings = InitSettings
    /\ history = InitHistory
    /\ now = 1
    /\ kb = Closure(InitHistory, <<>>, <<>>, InitSettings)
    /\ activeTool = "cursor"
    /\ isDragging = FALSE
    /\ dragStart = [x |-> 0, y |-> 0]
    /\ dragElementId = Null
    /\ potentialDragElement = Null
    /\ isResizing = FALSE
    /\ resizeHandle = None
    /\ resizeStart = [x |-> 0, y |-> 0, width |-> 0, height |-> 0]
    /\ isRotating = FALSE
    /\ rotateStart = [x |-> 0, y |-> 0, rotation |-> 0]
    /\ scale = <<1, 1>>
    /\ pressTarget = Null
    /\ timers = NoTimers
    /\ isPreviewMode = FALSE
    /\ touchStart = Null
    /\ lastOp = "init"
    /\ run = NoRun
    /\ preUndo = NoPreUndo
    /\ trail = <<>>

\* the fractions stay small: a zoom step is taken while the denominator is below MaxDen
NextZoom ==
    \/ (scale[2] < MaxDen /\ \E deltaY \in WheelDeltas, ctrlKey \in BOOLEAN : handleWheel(deltaY, ctrlKey))
    \/ (\E distance \in TouchDistances : handleTouchStart(distance))
    \/ (scale[2] < MaxDen /\ \E distance \in TouchDistances : handleTouchMove(distance))
    \/ handleTouchEnd

SpecZoom == InitZoom /\ [][NextZoom]_vars

\* --------------------------------------------------- page.tsx: the preview mode
\* onClick of the Mode button
togglePreview ==
    /\ isPreviewMode' = ~isPreviewMode
    /\ selectedElementIds' = <<>>
    /\ kb' = Closure(history, elements, selectedElementIds', settings)
    /\ activeTool' = IF ~isPreviewMode THEN "cursor" ELSE activeTool
    /\ UNCHANGED <<elements, settings, history, now, canvasVars, timers, touchStart>>
    /\ Obs("togglePreview", "other", 0)

\* a press on the canvas or on an element while the preview is on: handleMouseDown and
\* the onMouseDown of a signature or a media element return at their first line
handleMouseDownPreview(o) ==
    LET p == toCanvasSpace(o, scale)
        t == DomTarget(elements, p) IN
    /\ isPreviewMode
    /\ ~OnSomeHandle(p)
    /\ pressTarget' = Press(IF t = 0 THEN EmptyId ELSE elements[t].id)
    /\ UNCHANGED <<pageVars, gestureVars, scale, timers, modeVars>>
    /\ Obs("handleMouseDown", "other", 0)

\* handleMouseMove while the preview is on
handleMouseMovePreview ==
    /\ isPreviewMode
    /\ UNCHANGED <<pageVars, canvasVars, timers, modeVars>>
    /\ Obs("handleMouseMove", "other", 0)

\* handleMouseUp while the preview is on, then the onClick of the element the button
\* went down on: that of a signature or a media element asks for !isDragging only,
\* that of a text or a label for the edit mode
handleMouseUpPreview(isShiftClick) ==
    LET clicked == IndexOfId(elements, pressTarget)
        selects == /\ clicked # 0
                   /\ elements[clicked].visible
                   /\ elements[clicked].type \in {"signature", "media"}
                   /\ ~isDragging
    IN
    /\ isPreviewMode
    /\ pressTarget # Null
    /\ pressTarget' = Null
    /\ selectedElementIds' = IF selects
                             THEN selectElement(selectedElementIds, elements[clicked].id, isShiftClick)
                             ELSE selectedElementIds
    /\ kb' = IF selects THEN Closure(history, elements, selectedElementIds', settings) ELSE kb
    /\ UNCHANGED <<elements, settings, history, now, activeTool, gestureVars, scale, timers, modeVars>>
    /\ Obs("handleMouseUp", "other", 0)

\* onMouseLeave of the canvas while the preview is on
handleMouseLeavePreview ==
    /\ isPreviewMode
    /\ pressTarget' = Null
    /\ UNCHANGED <<pageVars, gestureVars, scale, timers, modeVars>>
    /\ Obs("handleMouseLeave", "other", 0)

\* -------------------------------------------------------------- SpecPreview
\* the editor and its preview: a signature, the Mode button and the pointer
NextPreview ==
    \/ (Released /\ ~isPreviewMode /\ Commits < MaxCommits /\ Len(elements) < MaxElements
          /\ handleSignatureConfirm)
    \/ (Released /\ togglePreview)
    \/ (CanPress /\ \E p \in Points, shift \in BOOLEAN : elementMouseDown(Screen(p), shift))
    \/ (CanPress /\ \E p \in Points : handleMouseDownPreview(Screen(p)))
    \/ (CanPress /\ \E i \in 1..Len(elements), handle \in Handles : resizeHandleMouseDown(i, handle))
    \/ (CanPress /\ \E i \in 1..Len(elements) : rotateHandleMouseDown(i))
    \/ (InPress /\ \E p \in Points : handleMouseMove(Screen(p)))
    \/ (InPress /\ handleMouseMovePreview)
    \/ (\E shift \in ClickShift : handleMouseUp(shift))
    \/ (\E shift \in ClickShift : handleMouseUpPreview(shift))
    \/ handleMouseLeave
    \/ handleMouseLeavePreview

SpecPreview == Init /\ [][NextPreview]_vars

\* ------------------------------------------- page.tsx: the visibility of a layer
\* toggleLayerVisibility(elementId): the eye button of layer i
toggleLayerVisibility(i) ==
    LET elementId == elements[i].id
        flip(el) == IF el.id = elementId THEN [el EXCEPT !.visible = ~el.visible] ELSE el
        keepId(id) == id # elementId
        hidesSelected == elements[i].visible /\ elementId \in Range(selectedElementIds) IN
    /\ updateElements(SeqMap(flip, elements), "toggle_layer_visibility",
                      IF hidesSelected THEN Some(SeqFilter(keepId, selectedElementIds)) ELSE Absent)
    /\ UNCHANGED activeTool
    /\ Obs("toggleLayerVisibility", "commit", 1)

\* ----------------------------------------------------------------- SpecHide
\* text elements, the eye button and the rows of the layers list, and the pointer
MaxHideCommits == 3
NextHide ==
    \/ (Released /\ \E tool \in {"cursor", "text"} : setActiveTool(tool))
    \/ (CanPress /\ \E p \in Points \cup ToolPoints, shift \in BOOLEAN :
            /\ IF activeTool = "cursor" THEN p \in Points
               ELSE Commits < MaxHideCommits /\ Len(elements) < MaxElements /\ p \in ToolPoints
            /\ handleMouseDown(Screen(p), shift, FALSE))
    \/ (InPress /\ \E p \in Points : handleMouseMove(Screen(p)))
    \/ (\E shift \in ClickShift : handleMouseUp(shift))
    \/ (Released /\ Commits < MaxHideCommits /\ \E i \in 1..Len(elements) : toggleLayerVisibility(i))
    \/ (Released /\ \E i \in 1..Len(elements), shift \in BOOLEAN : layerClick(i, shift))

SpecHide == Init /\ [][NextHide]_vars

\* ------------------------------------------------------------------ SpecLoad
\* the two load paths: the saved state read from localStorage by the mount effect,
\* and template files, followed by ordinary editing
\* migrateLabelElements(elements)
migrateLabelElements(els) ==
    LET migrate(element) ==
            IF element.type = "label"
            THEN Spread(Spread(Spread(element,
                     "verticalAlign", OrDefault(element, "verticalAlign", "center")),
                     "minFontSize", OrDefault(element, "minFontSize", 8)),
                     "autoSizeText", OrDefault(element, "autoSizeText", TRUE))
            ELSE element
    IN SeqMap(migrate, els)

\* label elements as older versions of the editor wrote them
OldLabel == NewElement("label", 2000, 110, 110, 100, 40, 1)
HalfOldLabel == Spread(NewElement("label", 2001, 110, 200, 100, 40, 2), "verticalAlign", "top")
FullLabel ==
    Spread(Spread(Spread(NewElement("label", 2002, 300, 200, 100, 40, 3),
        "verticalAlign", "bottom"), "minFontSize", 10), "autoSizeText", FALSE)

\* what localStorage may hold under STORAGE_KEY: nothing, or a saved state
SavedStates ==
    {Absent,
     Some([elements |-> Some(<<OldLabel>>), meshColor |-> "", backgroundColor |-> "",
           canvasRatio |-> "", showGrid |-> Absent, activeTool |-> "",
           selectedElementIds |-> Absent]),
     Some([elements |-> Some(<<FullLabel, HalfOldLabel>>), meshColor |-> "#000000",
           backgroundColor |-> "#111111", canvasRatio |-> "4:3", showGrid |-> Some(FALSE),
           activeTool |-> "label", selectedElementIds |-> Some(<<2001>>)]),
     Some([elements |-> Absent, meshColor |-> "", backgroundColor |-> "",
           canvasRatio |-> "1:1", showGrid |-> Some(TRUE), activeTool |-> "",
           selectedElementIds |-> Absent])}

\* template files that hold labels
LabelTemplates ==
    {[elements |-> Some(<<OldLabel>>), canvasSettings |-> Absent],
     [elements |-> Some(<<FullLabel, NewElement("signature", 2003, 100, 100, 200, 100, 1)>>),
      canvasSettings |-> Absent]}

\* the mount effect that reads localStorage, and the render after it
loadFromStorage(savedState) ==
    /\ lastOp = "init"
    /\ IF savedState = Absent
       THEN UNCHANGED <<elements, selectedElementIds, settings, history, now, kb, activeTool>>
       ELSE LET state == savedState[1] IN
            /\ elements' = IF state.elements = Absent THEN elements
                           ELSE SortLayers(migrateLabelElements(state.elements[1]))
            /\ settings' = [settings EXCEPT
                   !.meshColor = IF state.meshColor # "" THEN state.meshColor ELSE @,
                   !.backgroundColor = IF state.backgroundColor # "" THEN state.backgroundColor ELSE @,
                   !.canvasRatio = IF state.canvasRatio # "" THEN state.canvasRatio ELSE @,
                   !.showGrid = IF state.showGrid # Absent THEN state.showGrid[1] ELSE @]
            /\ activeTool' = IF state.activeTool # "" THEN state.activeTool ELSE activeTool
            /\ selectedElementIds' = IF state.selectedElementIds # Absent
                                     THEN state.selectedElementIds[1] ELSE selectedElementIds
            /\ history' = IF state.elements = Absent THEN history
                          ELSE [past |-> <<>>,
                                present |->
                                  [elements |-> state.elements[1],
                                   canvasSettings |->
                                     [meshColor |-> OrElse(state.meshColor, "#e2e8f0"),
                                      backgroundColor |-> OrElse(state.backgroundColor, "#ffffff"),
                                      canvasRatio |-> OrElse(state.canvasRatio, "16:9"),
                                      showGrid |-> IF state.showGrid # Absent
                                                   THEN state.showGrid[1] ELSE TRUE,
                                      backgroundImage |-> None],
                                   timestamp |-> now,
                                   operation |-> "load_state"],
                                future |-> <<>>]
            /\ now' = IF state.elements = Absent THEN now ELSE now + 1
            /\ kb' = IF state.selectedElementIds = Absent THEN kb
                     ELSE Closure(history', elements', selectedElementIds', settings')
    /\ UNCHANGED <<canvasVars, timers, modeVars>>
    /\ Obs("loadFromStorage", "other", 0)

\* an unparseable file whose failed load also drops the selection
loadTemplateDropsSelection ==
    /\ selectedElementIds' = <<>>
    /\ kb' = Closure(history, elements, <<>>, settings)
    /\ UNCHANGED <<elements, settings, history, now, activeTool, canvasVars, timers, modeVars>>
    /\ Obs("loadTemplateUnparseable", "other", 0)

\* reader.onload of loadTemplate, JSON.parse throws: the catch block shows the alert
loadTemplateUnparseable ==
    /\ UNCHANGED <<pageVars, canvasVars, timers, modeVars>>
    /\ Obs("loadTemplateUnparseable", "other", 0)

\* the mount effect has run: setIsLoaded(true)
Loaded == lastOp # "init"

NextLoad ==
    \/ (\E savedState \in SavedStates : loadFromStorage(savedState))
    \/ (Loaded /\ \E template \in Templates \cup LabelTemplates : loadTemplate(template))
    \/ (Loaded /\ loadTemplateUnparseable)
    \/ (Loaded /\ Commits < MaxDocCommits /\ Len(elements) < MaxElements /\ handleSignatureConfirm)
    \/ (Loaded /\ Commits < MaxDocCommits /\ updateShowGrid)
    \/ (Loaded /\ undo)
    \/ (Loaded /\ redo)

SpecLoad == Init /\ [][NextLoad]_vars

\* ================================================================== claims

\* C1: from any state with no gesture in progress, N commits followed by N undos
\* (nothing in between) leave the live elements and canvas settings as they were
\* just before the first commit: each undo of such a run returns the live state
\* to what it was before the commit it undoes. Stated for the Undo button, whose
\* handler sees the current stack.
C1_RoundTrip ==
    [][(lastOp' = "undo" /\ run.starts # <<>>) =>
          [elements |-> elements', settings |-> settings'] = Last(run.starts)]_vars

\* C2: immediately after every commit, whatever its operation and whatever the
\* stack held before, future is empty, the previous present is the last entry of
\* past, and the committed state (the live elements and settings) is present.
C2_CommitLinear ==
    [][(now' = now + 1) =>
          /\ history'.future = <<>>
          /\ history'.past # <<>>
          /\ Last(history'.past) = history.present
          /\ history'.present.timestamp = now
          /\ history'.present.elements = elements'
          /\ history'.present.canvasSettings = settings']_vars
\* a commit was made over a non-empty future: commits, undos, then one commit
C2_Witness ==
    /\ run.phase = "commits2" /\ run.u >= 1 /\ run.c2 = 1
    /\ history.future = <<>>
    /\ Len(history.past) >= 1

\* C3: after an undo executed while future is empty and past is not, an immediately
\* following redo restores the live elements, the live settings and the stack
\* that existed just before that undo. Stated for the Undo and Redo buttons, whose
\* handlers see the current stack.
C3_UndoRedo ==
    [][(preUndo.valid /\ preUndo.op = "undo" /\ lastOp' = "redo") =>
          /\ elements' = preUndo.elements
          /\ settings' = preUndo.settings
          /\ history' = preUndo.history]_vars

\* C4: in every reachable state, after any sequence of commits, undos and redos,
\* past holds at most 100 entries.
C4_PastBounded == Len(history.past) <= MAX_HISTORY_SIZE
\* a redo has just appended to a past that is now full
C4_Witness == Len(history.past) = MAX_HISTORY_SIZE /\ lastOp = "redo"

\* C5: from a fresh history, after 101 consecutive commits exactly 100 undos take
\* effect (the u-th undo leaves 100 - u entries in past, later ones change nothing),
\* and the state that was present before the first commit is never present again.
C5_EvictionAndUndos ==
    (run.c = MAX_HISTORY_SIZE + 1 /\ run.phase \in {"commits", "undos"}) =>
        /\ Len(history.past) =
              IF run.u <= MAX_HISTORY_SIZE THEN MAX_HISTORY_SIZE - run.u ELSE 0
        /\ history.present.timestamp # InitHistory.present.timestamp

\* C6: from a fresh history, 100 commits, one undo, one commit leave future empty
\* and past with exactly 100 entries.
C6_UndoThenCommit ==
    (run.phase = "commits2" /\ run.c = MAX_HISTORY_SIZE /\ run.u = 1 /\ run.c2 = 1) =>
        /\ history.future = <<>>
        /\ Len(history.past) = MAX_HISTORY_SIZE

\* C7: a pointer-down on an element of any draggable kind followed by pointer-up
\* with no move in between makes no commit and changes no geometry, and the
\* pointer-down alone does not put the machine in Dragging.
C7_ClickNoDrag ==
    [][/\ (lastOp' = "handleMouseUp" /\ Len(trail) = 1 /\ trail[1].k = "downElement") =>
              (now' = now /\ history' = history /\ elements' = elements)
       /\ (lastOp' \in {"handleMouseDown", "elementMouseDown"} /\ trail = <<>>) =>
              ~isDragging']_vars

\* C8: with the cursor tool, pointer-down on an element (no shift key), exactly one
\* move to another canvas position, pointer-up: exactly one commit, whose snapshot
\* holds the element at x = pointer x - grab offset x, y likewise.
C8_DownMoveUp ==
    [][(/\ lastOp' = "handleMouseUp" /\ Len(trail) = 2 /\ activeTool = "cursor"
        /\ trail[1].k = "downElement" /\ ~trail[1].shift
        /\ trail[2].k = "move" /\ trail[2].p # trail[1].p) =>
          /\ now' = now + 1
          /\ LET committed == history'.present.elements
                 i == IndexOfId(committed, trail[1].id) IN
             /\ i # 0
             /\ committed[i].x = trail[2].p[1] - trail[1].g[1]
             /\ committed[i].y = trail[2].p[2] - trail[1].g[2]]_vars

\* C9: every pointer-up that ends a Dragging, Resizing or Rotating gesture makes
\* exactly one commit, tagged move_element, resize_element or rotate_element
\* respectively, whose elements are the live elements, and leaves the machine Idle.
C9_OneCommitPerGesture ==
    [][(lastOp' = "handleMouseUp" /\ (isDragging \/ isResizing \/ isRotating)) =>
          /\ now' = now + 1
          /\ history'.present.operation =
                IF isDragging THEN "move_element"
                ELSE IF isResizing THEN "resize_element" ELSE "rotate_element"
          /\ history'.present.elements = elements'
          /\ ~isDragging' /\ ~isResizing' /\ ~isRotating' /\ potentialDragElement' = Null]_vars

\* C10: after every move of a resize gesture, on any handle, for any pointer
\* delta and whatever the size of the element when the gesture started, the
\* width and the height of the resized element are at least 20.
C10_MinSize ==
    [][(/\ lastOp' = "handleMouseMove" /\ ResizeBranch
        /\ IndexOfId(elements, dragElementId) # 0) =>
          LET j == IndexOfId(elements', dragElementId) IN
          /\ j # 0
          /\ elements'[j].width >= MinResizeSize
          /\ elements'[j].height >= MinResizeSize]_vars

\* C11: after every move event of a rotation gesture, whatever gestures and moves
\* came before, the rotation r of the rotated element satisfies 0 <= r < 360 and
\* is startRotation + currentAngle - startAngle normalised modulo 360: it differs
\* from that sum by a whole number of turns (up to the rounding of one addition
\* of doubles, 2^-44 below 512).
C11_RotationNormalised ==
    [][(lastOp' = "handleMouseMoveF64" /\ isRotating
          /\ IndexOfId(elements, dragElementId) # 0) =>
          LET el == elements[IndexOfId(elements, dragElementId)]
              v == CentreOffsets(el, Last(trail').p)
              sum == DSum(rotateStart.rotation,
                          DSum(calculateRotationAngleF64(v.c[1], v.c[2]),
                               DNeg(calculateRotationAngleF64(v.s[1], v.s[2]))))
              r == elements'[IndexOfId(elements', dragElementId)].rotation
              off == DSum(DSum(r, DNeg(sum)), <<0, 0, 4>>)
          IN /\ r[1] >= 0
             /\ r[1] < FullTurn
             /\ off[1] % FullTurn = 0 /\ off[2] = 0 /\ off[3] <= 8]_vars

\* C12: in every reachable state the rotation of every element lies in [0, 360),
\* whichever operation last set it (gesture, rotation slider or number input, undo, redo).
C12_RotationRange ==
    \A i \in 1..Len(elements) :
        elements[i].rotation >= 0 /\ elements[i].rotation < FullTurn

\* C13: for each of the 8 handles and any sequence of move events of one resize gesture,
\* the geometry after each move (so after the last) is the anchor-preserving reference
\* of the start geometry and the total pointer delta: the dimensions the handle changes
\* are max(20, start -/+ delta), and the edge or corner opposite the handle stays put.
C13_AnchorPreserving ==
    [][(/\ lastOp' = "handleMouseMove"
        /\ trail # <<>> /\ Len(trail) < MaxTrail
        /\ trail[1].k = "downResize"
        /\ \A n \in 2..Len(trail) : trail[n].k = "move"
        /\ IndexOfId(elements, trail[1].id) # 0) =>
          LET j == IndexOfId(elements', trail[1].id)
              handle == resizeHandle
              x0 == trail[1].g[1]
              y0 == trail[1].g[2]
              w0 == trail[1].g[3]
              h0 == trail[1].g[4]
              dx == Last(trail').p[1] - trail[1].p[1]
              dy == Last(trail').p[2] - trail[1].p[2]
              west == handle \in {"nw", "w", "sw"}
              east == handle \in {"ne", "e", "se"}
              north == handle \in {"nw", "n", "ne"}
              south == handle \in {"sw", "s", "se"}
              w == IF west THEN Max2(MinResizeSize, w0 - dx)
                   ELSE IF east THEN Max2(MinResizeSize, w0 + dx) ELSE w0
              h == IF north THEN Max2(MinResizeSize, h0 - dy)
                   ELSE IF south THEN Max2(MinResizeSize, h0 + dy) ELSE h0
          IN /\ j # 0
             /\ elements'[j].width = w
             /\ elements'[j].height = h
             /\ elements'[j].x = (IF west THEN x0 + w0 - w ELSE x0)
             /\ elements'[j].y = (IF north THEN y0 + h0 - h ELSE y0)]_vars
\* two moves of a resize on the nw handle have moved the origin of the element
C13_Witness ==
    /\ lastOp = "handleMouseMove"
    /\ Len(trail) = 3
    /\ trail[1].k = "downResize" /\ trail[2].k = "move" /\ trail[3].k = "move"
    /\ trail[2].p # trail[3].p
    /\ resizeHandle = "nw"
    /\ LET j == IndexOfId(elements, trail[1].id) IN
          j # 0 /\ elements[j].x # trail[1].g[1] /\ elements[j].y # trail[1].g[2]

UndoOps == {"undo", "keyUndo"}
RedoOps == {"redo", "keyRedo"}

\* C14: undo with an empty past and redo with an empty future are silent no-ops:
\* the history stack, the live elements, the live canvas settings and the selection
\* are unchanged, however the operation is invoked (button or keyboard shortcut).
C14_SilentNoOp ==
    [][((lastOp' \in UndoOps /\ history.past = <<>>)
          \/ (lastOp' \in RedoOps /\ history.future = <<>>)) =>
          UNCHANGED <<history, elements, settings, selectedElementIds>>]_vars

\* C15: undo with a non-empty past moves the last past entry to present and the old
\* present to the front of future; redo with a non-empty future moves the front of
\* future to present and the old present to the end of past; so past ++ [present] ++
\* future is the same sequence before and after.
C15_MoveAcrossPresent ==
    [][/\ (lastOp' \in UndoOps /\ history.past # <<>>) =>
             /\ history'.present = Last(history.past)
             /\ history'.past = Front(history.past)
             /\ history'.future = <<history.present>> \o history.future
       /\ (lastOp' \in RedoOps /\ history.future # <<>>) =>
             /\ history'.present = history.future[1]
             /\ history'.future = Tail(history.future)
             /\ history'.past = Append(history.past, history.present)
       /\ (lastOp' \in UndoOps \cup RedoOps) =>
             history'.past \o <<history'.present>> \o history'.future
               = history.past \o <<history.present>> \o history.future]_vars

\* C16: immediately after every effective undo or redo the live elements and the
\* live canvas settings equal those of the new history present.
C16_LiveIsPresent ==
    [][(/\ lastOp' \in UndoOps \cup RedoOps
        /\ (history' # history \/ elements' # elements \/ settings' # settings)) =>
          /\ elements' = history'.present.elements
          /\ settings' = history'.present.canvasSettings]_vars
\* an undo has just changed the live elements and the live settings
C16_Witness ==
    /\ lastOp = "undo" /\ preUndo.valid
    /\ elements # preUndo.elements
    /\ settings # preUndo.settings
    /\ elements = history.present.elements

\* C17: undo and redo leave the selection as it was before the operation.
C17_SelectionKept ==
    [][(lastOp' \in UndoOps \cup RedoOps) => selectedElementIds' = selectedElementIds]_vars
\* after an undo the selection still names the element the undo removed
C17_Witness ==
    /\ lastOp = "undo" /\ preUndo.valid
    /\ selectedElementIds # <<>>
    /\ \E n \in 1..Len(selectedElementIds) :
          /\ IndexOfId(preUndo.elements, selectedElementIds[n]) # 0
          /\ IndexOfId(elements, selectedElementIds[n]) = 0

\* the pointer-downs of the cursor tool that call selectElement
SelectingDowns == {"downElement", "downOther", "downCanvas"}

\* C18: select(id, additive = false) makes the selection the singleton <<id>> for a
\* real element id, and empty (zero entries) for the sentinel id passed by a
\* pointer-down on empty canvas.
C18_PlainSelect ==
    [][(/\ lastOp' \in {"handleMouseDown", "elementMouseDown"}
        /\ trail' # <<>> /\ Len(trail) < MaxTrail
        /\ Last(trail').k \in SelectingDowns
        /\ ~Last(trail').shift) =>
          IF Last(trail').k = "downCanvas"
          THEN selectedElementIds' = <<>>
          ELSE selectedElementIds' = <<Last(trail').id>>]_vars

\* C19: select(id, additive = true) toggles id: a selected id is removed, an
\* unselected one is appended; the other ids and their order are unchanged; a second
\* additive select of the same id gives back the original selection set.
C19_AdditiveToggle ==
    [][(/\ lastOp' \in {"handleMouseDown", "elementMouseDown"}
        /\ trail' # <<>> /\ Len(trail) < MaxTrail
        /\ Last(trail').k \in {"downElement", "downOther"}
        /\ Last(trail').shift) =>
          LET id == Last(trail').id
              sel == selectedElementIds
              new == selectedElementIds'
          IN /\ IF id \in Range(sel)
                THEN /\ Range(new) = Range(sel) \ {id}
                     /\ Len(new) = Len(sel) - 1
                     /\ \A i, j \in 1..Len(new) :
                           i < j => \E a, b \in 1..Len(sel) :
                                      a < b /\ sel[a] = new[i] /\ sel[b] = new[j]
                ELSE new = Append(sel, id)
             /\ Range(selectElement(new, id, TRUE)) = Range(sel)]_vars
\* an additive select has just removed an id and left another entry selected
C19_Witness ==
    /\ lastOp \in {"handleMouseDown", "elementMouseDown"}
    /\ trail # <<>> /\ Last(trail).shift
    /\ Last(trail).k \in {"downElement", "downOther"}
    /\ selectedElementIds # <<>>
    /\ Last(trail).id \notin Range(selectedElementIds)

\* C20: in every reachable state at most one interaction session is active: at most
\* one of PendingDrag, Dragging, Resizing and Rotating holds.
C20_OneSession ==
    Cardinality({n \in 1..4 :
        <<Truthy(potentialDragElement), isDragging, isResizing, isRotating>>[n]}) <= 1

\* C21: once the element a drag, resize or rotate gesture refers to is no longer in
\* the live elements, every move event leaves the elements unchanged and the
\* pointer-up (or pointer-leave) that ends the gesture makes no history commit.
C21_GoneMidGesture ==
    [][(/\ (isDragging \/ isResizing \/ isRotating)
        /\ Truthy(dragElementId)
        /\ IndexOfId(elements, dragElementId) = 0) =>
          /\ (lastOp' = "handleMouseMove" => elements' = elements)
          /\ (lastOp' \in {"handleMouseUp", "handleMouseLeave"} =>
                 history' = history /\ now' = now)]_vars

\* C24: a pointer-leave during a drag, resize or rotate gesture does what a pointer-up
\* does in that state: it makes the one commit of the gesture (move_element,
\* resize_element or rotate_element over the previous present, holding the live
\* elements), rolls nothing back (the live elements stay as the moves left them)
\* and leaves the machine Idle.
C24_LeaveFinalises ==
    [][(lastOp' = "handleMouseLeave" /\ (isDragging \/ isResizing \/ isRotating)) =>
          /\ now' = now + 1
          /\ history'.present.operation =
                IF isDragging THEN "move_element"
                ELSE IF isResizing THEN "resize_element" ELSE "rotate_element"
          /\ Last(history'.past) = history.present
          /\ history'.present.elements = elements
          /\ elements' = elements
          /\ ~isDragging' /\ ~isResizing' /\ ~isRotating'
          /\ potentialDragElement' = Null /\ dragElementId' = Null]_vars

\* C30: a cursor-tool pointer-down at a point covered by several visible text / label
\* elements selects the one painted on top: the covering element with the highest
\* zIndex, the later one in the array among equal zIndex.
C30_HitIsTopmost ==
    [][(/\ lastOp' = "handleMouseDown" /\ activeTool = "cursor"
        /\ trail' # <<>> /\ Len(trail) < MaxTrail
        /\ Last(trail').k \in {"downElement", "downOther"}
        /\ ~Last(trail').shift) =>
          LET p == Last(trail').p
              covering == {i \in 1..Len(elements) :
                             /\ elements[i].type \in {"text", "label"}
                             /\ elements[i].visible
                             /\ Contains(elements[i], p)}
          IN Cardinality(covering) >= 2 =>
                \E i \in covering :
                    /\ \A j \in covering :
                          elements[j].zIndex < elements[i].zIndex
                          \/ (elements[j].zIndex = elements[i].zIndex /\ j <= i)
                    /\ selectedElementIds' = <<elements[i].id>>]_vars

\* C28: after a load by either path (the saved state of localStorage at start-up, a
\* template file) every label of the live elements and of the history present has
\* verticalAlign, minFontSize and autoSizeText defined.
C28_LabelsMigrated ==
    [][lastOp' \in {"loadFromStorage", "loadTemplate"} =>
          LET LabelFields == {"verticalAlign", "minFontSize", "autoSizeText"}
              LabelsComplete(els) ==
                  \A i \in 1..Len(els) :
                      els[i].type = "label" => LabelFields \subseteq DOMAIN els[i]
          IN LabelsComplete(elements') /\ LabelsComplete(history'.present.elements)]_vars

\* C29: an unparseable template file leaves the live elements, the canvas settings,
\* the selection and the history stack exactly as they were.
C29_UnparseableUntouched ==
    [][lastOp' = "loadTemplateUnparseable" =>
          /\ elements' = elements
          /\ settings' = settings
          /\ selectedElementIds' = selectedElementIds
          /\ history' = history]_vars
C29_Witness ==
    /\ lastOp = "loadTemplateUnparseable"
    /\ elements # <<>>
    /\ selectedElementIds # <<>>
    /\ history.past # <<>>

\* C22: in a burst of debounced edits (typing into the Text Content field, renaming a
\* layer) every edit changes the live elements at once, cancels the pending timer and
\* schedules a fresh one, so that the burst has one timer pending, and ends with one
\* commit that carries the elements of the last edit.
C22_BurstOneCommit ==
    [][/\ (lastOp' \in {"editText", "renameLayer"} =>
              LET pending == {k \in DOMAIN timers' : timers'[k] # Absent} IN
              /\ Cardinality(pending) = 1
              /\ \A k \in pending : timers'[k][1].newElements = elements')
       /\ (lastOp \in {"editText", "renameLayer"}
              /\ lastOp' \in {"textInputTimeout", "layerRenameTimeout"} =>
              /\ history'.present.elements = elements
              /\ Last(history'.past) = history.present
              /\ timers' = NoTimers)]_vars

\* C23: the HistoryState a commit installs as present holds the elements and the canvas
\* settings that are live when the commit executes, also when the commit is a debounced
\* one that runs after other operations.
C23_CommitIsLive ==
    [][now' # now =>
          /\ history'.present.elements = elements'
          /\ history'.present.canvasSettings = settings']_vars

\* C26: an inserted element (signature, media, group) gets zIndex = max(existing) + 1,
\* above every zIndex of the document it is inserted into, and a zIndex that no
\* element of an earlier document of the history ever had.
C26_ZIndexFresh ==
    [][lastOp' \in {"handleSignatureConfirm", "handleMediaConfirm", "createGroup"} =>
          LET inserted == elements'[IndexOfId(elements', now)]
              snapshots == Range(history.past) \cup {history.present} \cup Range(history.future)
              assigned == UNION {{snap.elements[i].zIndex : i \in 1..Len(snap.elements)} :
                                    snap \in snapshots}
                          \cup {elements[i].zIndex : i \in 1..Len(elements)}
          IN /\ inserted.zIndex = MaxZIndex(elements) + 1
             /\ \A i \in 1..Len(elements) : elements[i].zIndex < inserted.zIndex
             /\ inserted.zIndex \notin assigned]_vars

\* C27: every id in the children of a group of the live document is the id of an
\* element of the live document.
C27_NoDanglingChild ==
    \A g \in 1..Len(elements) :
        elements[g].type = "group" =>
            \A c \in Range(elements[g].children) : IndexOfId(elements, c) # 0

\* C25: a HistoryState is never changed after it is stored: the element sequence an
\* inserting handler hands to saveToHistory (the live array with the new element
\* appended) is the element sequence of the present after the render that follows,
\* and every HistoryState that stays in the stack keeps its element sequence.
C25_SnapshotsImmutable ==
    [][/\ (lastOp' \in {"handleSignatureConfirm", "handleMediaConfirm"} =>
              history'.present.elements = Append(elements, elements'[IndexOfId(elements', now)]))
       /\ LET Stored(h) == Range(h.past) \cup {h.present} \cup Range(h.future) IN
          \A old \in Stored(history), new \in Stored(history') :
              old.timestamp = new.timestamp => old.elements = new.elements]_vars

\* C35: an undo or redo invoked by the keyboard shortcut acts on the current history
\* stack exactly like the Undo / Redo button: it moves one entry across the present of
\* the stack as it is now, and makes the new present the live state.
C35_KeyboardLikeButton ==
    [][/\ (lastOp' = "keyUndo" /\ history.past # <<>> =>
              /\ history' = [UndoStack(history) EXCEPT !.present = RenderSnapshot(Last(history.past))]
              /\ elements' = history'.present.elements
              /\ settings' = history'.present.canvasSettings)
       /\ (lastOp' = "keyRedo" /\ history.future # <<>> =>
              /\ history' = [RedoStack(history) EXCEPT !.present = RenderSnapshot(history.future[1])]
              /\ elements' = history'.present.elements
              /\ settings' = history'.present.canvasSettings)]_vars

\* C36: whenever no gesture is in progress and no debounced commit is pending, the
\* live elements and the live canvas settings are those of the history present.
C36_LiveEqualsPresent ==
    (/\ ~isDragging /\ ~isResizing /\ ~isRotating /\ ~Truthy(potentialDragElement)
     /\ timers = NoTimers) =>
        /\ elements = history.present.elements
        /\ settings = history.present.canvasSettings

\* C37: in every reachable state past and future together hold at most 100 entries.
C37_StackBounded == Len(history.past) + Len(history.future) <= MAX_HISTORY_SIZE
\* the stack is full with part of it undone, and a redo has just moved an entry back
C37_Witness ==
    /\ Len(history.past) + Len(history.future) = MAX_HISTORY_SIZE
    /\ history.future # <<>>
    /\ lastOp \in RedoOps

\* C39: in every reachable state every id of the selection is the id of an element of
\* the live elements.
C39_SelectionIsLive ==
    \A n \in 1..Len(selectedElementIds) : IndexOfId(elements, selectedElementIds[n]) # 0

\* C33: no pointer-move changes the history stack or the selection; a move changes at
\* most the live geometry of the gesture's target element (x, y while dragging; x, y,
\* width, height while resizing; rotation while rotating) and no other element.
C33_MoveTouchesTargetOnly ==
    [][lastOp' = "handleMouseMove" =>
          LET allowed == (IF isDragging THEN {"x", "y"} ELSE {})
                         \cup (IF isResizing THEN {"x", "y", "width", "height"} ELSE {})
                         \cup (IF isRotating THEN {"rotation"} ELSE {})
          IN /\ history' = history
             /\ now' = now
             /\ selectedElementIds' = selectedElementIds
             /\ Len(elements') = Len(elements)
             /\ \A i \in 1..Len(elements) :
                   /\ DOMAIN elements'[i] = DOMAIN elements[i]
                   /\ \A f \in DOMAIN elements[i] :
                         elements'[i][f] # elements[i][f] =>
                             elements[i].id = dragElementId /\ f \in allowed]_vars
\* a move of a drag has just displaced one of two elements
C33_Witness ==
    /\ lastOp = "handleMouseMove"
    /\ isDragging
    /\ Len(elements) = 2
    /\ \E i \in 1..2 : elements[i].id = dragElementId
                        /\ elements[i] \notin Range(history.present.elements)

\* C34: a complete shift-click on a visible text or label element (pointer-down,
\* pointer-up and the click, no movement, cursor tool) toggles the element in the
\* selection exactly once: the pointer-down has toggled it, so the click that follows
\* leaves the selection as it is (or, with shift released by then, selects the element
\* alone).
C34_ShiftClickTogglesOnce ==
    [][(/\ lastOp' = "handleMouseUp"
        /\ activeTool = "cursor"
        /\ Len(trail) = 1
        /\ trail[1].k \in {"downElement", "downOther"}
        /\ trail[1].shift
        /\ pressTarget = trail[1].id
        /\ IndexOfId(elements, pressTarget) # 0
        /\ elements[IndexOfId(elements, pressTarget)].type \in {"text", "label"}
        /\ elements[IndexOfId(elements, pressTarget)].visible) =>
          selectedElementIds' \in {selectedElementIds, <<pressTarget>>}]_vars

\* C31: after any sequence of wheel-zoom and pinch-zoom events, from the initial scale
\* 1, the zoom scale is within [0.1, 4.0].
C31_ScaleInRange == 10 * scale[1] >= scale[2] /\ scale[1] <= 4 * scale[2]
\* a pinch that would have taken the scale below 0.1 has just been clamped
C31_Witness ==
    /\ lastOp = "handleTouchMove"
    /\ scale = <<1, 10>>
    /\ touchStart = 0

\* the pointer events of the canvas, of its elements and of their handles
PointerOps == {"handleMouseDown", "elementMouseDown", "resizeHandleMouseDown", "rotateHandleMouseDown",
               "handleMouseMove", "handleMouseUp", "handleMouseLeave"}

\* C38: while the preview is on, a pointer event on the canvas, on an element or on a
\* handle leaves the elements, the selection, the gesture flags, the target id and the
\* history as they are, and the step that turns the preview off ends in Idle
C38_PreviewIsInert ==
    [][/\ (isPreviewMode /\ lastOp' \in PointerOps)
            => UNCHANGED <<elements, selectedElementIds, isDragging, isResizing, isRotating,
                           dragElementId, potentialDragElement, history>>
       /\ (isPreviewMode /\ ~isPreviewMode') => Idle']_vars

\* C32: a pointer-up or a pointer-leave, from whatever state, ends in Idle with no
\* gesture flag, no target element id and no pending drag
C32_PointerUpClears ==
    [][lastOp' \in {"handleMouseUp", "handleMouseLeave"}
          => /\ Idle'
             /\ dragElementId' = Null
             /\ resizeHandle' = None]_vars

\* C40: an element whose visible flag is false is not in the selection, and is neither
\* the target of a gesture nor of a pending drag
C40_HiddenNeverTargeted ==
    \A i \in 1..Len(elements) :
        ~elements[i].visible
            => /\ elements[i].id \notin Range(selectedElementIds)
               /\ dragElementId # elements[i].id
               /\ potentialDragElement # elements[i].id
====
